------------------------- MODULE HandleStorageProofs -------------------------
(***************************************************************************)
(* The table of handles finds every service by its handle, for any number  *)
(* of services, any bound on the handles and any size the table begins     *)
(* with, and skynet_handle_retireall leaves none of those it began with.   *)
(*                                                                         *)
(* A context in the table is where the handle it was given says, and       *)
(* nothing else is in the table (TableOK).  Doubling the table keeps this, *)
(* since two handles with the same remainder by the double have the same   *)
(* remainder by the half.  That a place is found in the table just doubled *)
(* is arithmetic about the walk over the handles: with Size(tab) handles   *)
(* tried and the reserved one skipped, some handle's place is the one that *)
(* the old table did not have (PairTried, GrownOK).                        *)
(***************************************************************************)
EXTENDS HandleStorage, FiniteSetTheorems, WellFoundedInduction, TLAPS

(* Two launches that overlap can break the table (handle_launch): what     *)
(* follows is about launches one at a time.                                *)
OneLaunch == MaxLaunch <= 1

Place(h) == 1 + (h % Len(slot))
InTable == {"new", "live"}
Contents == Ctx \cup {None}

(* A table in which every context is where its handle says, and nothing    *)
(* else is.                                                                *)
SizeOK(n) == n \in Nat \ {0} /\ n % 2 = 0 /\ n <= HandleMask + 1
TableOK(tab) ==
    /\ tab \in Seq(Contents) /\ SizeOK(Len(tab))
    /\ \A c \in Ctx : stage[c] \in InTable => tab[1 + (given[c] % Len(tab))] = c
    /\ \A p \in 1 .. Len(tab) : tab[p] # None =>
           stage[tab[p]] \in InTable /\ p = 1 + (given[tab[p]] % Len(tab))

(* A context has the handle it was given once it is launched, and none     *)
(* before.                                                                 *)
Handled ==
    \A c \in Ctx : /\ stage[c] \in InTable => given[c] \in 1 .. HandleMask
                   /\ stage[c] = "live" => handle[c] = given[c]
                   /\ stage[c] = "new" => handle[c] = 0

(* The pass of skynet_handle_retireall: while it has retired nothing, the  *)
(* contexts it began with that are live are before it.                     *)
SweepInv ==
    /\ sweep \in [i : Nat, n : {0, 1}, met : SUBSET Ctx]
    /\ \A c \in sweep.met :
          /\ stage[c] \in {"live", "dying"}
          /\ sweep.n = 0 /\ stage[c] = "live" => sweep.i <= Place(given[c])

IInv == /\ TypeOK /\ TableOK(slot) /\ Handled /\ IsFiniteSet(Launching)
        /\ SweepInv /\ GrowAssert

-----------------------------------------------------------------------------
(* What a number is made of.                                               *)
LEMMA DivMod ==
    ASSUME NEW a \in Nat, NEW n \in Nat \ {0}
    PROVE  a \div n \in Nat /\ a % n \in 0 .. n - 1 /\ a = n * (a \div n) + (a % n)
<1>1. a \div n \in Int /\ a % n \in 0 .. n - 1
  OBVIOUS
<1>2. a = n * (a \div n) + (a % n)
  OBVIOUS
<1>3. a \div n >= 0
  OBVIOUS
<1> QED
  BY <1>1, <1>2, <1>3

(* There is one remainder.                                                 *)
LEMMA ModIs ==
    ASSUME NEW n \in Nat \ {0}, NEW q \in Nat, NEW r \in 0 .. n - 1
    PROVE  (n * q + r) % n = r
  OBVIOUS

(* A small number is its own remainder, and one round more changes none.   *)
LEMMA ModSmall ==
    ASSUME NEW n \in Nat \ {0}, NEW r \in 0 .. n - 1
    PROVE  r % n = r /\ (n + r) % n = r
<1>1. n * 0 + r = r /\ n * 1 + r = n + r
  OBVIOUS
<1> QED
  BY <1>1, ModIs

(* Where a handle goes when the table doubles: it stays in its place or    *)
(* moves up by the old size.                                               *)
LEMMA ModDouble ==
    ASSUME NEW a \in Nat, NEW n \in Nat \ {0}
    PROVE  /\ a % n \in 0 .. n - 1 /\ a % (2 * n) \in 0 .. 2 * n - 1
           /\ a % (2 * n) = a % n \/ a % (2 * n) = (a % n) + n
<1> DEFINE m == 2 * n
           q == a \div m
           r == a % m
<1>1. m \in Nat \ {0} /\ m = 2 * n
  OBVIOUS
<1> HIDE DEF m
<1>2. q \in Nat /\ r \in 0 .. m - 1 /\ a = m * q + r
  BY <1>1, DivMod
<1> HIDE DEF q, r
<1>3. m * q = n * (2 * q)
  BY <1>1, <1>2
<1>4. CASE r < n
  <2>1. a = n * (2 * q) + r /\ 2 * q \in Nat /\ r \in 0 .. n - 1
    BY <1>1, <1>2, <1>3, <1>4
  <2>2. a % n = r
    BY <2>1, ModIs
  <2> QED
    BY <1>1, <1>2, <2>1, <2>2 DEF r
<1>5. CASE r >= n
  <2>1. n * (2 * q + 1) = n * (2 * q) + n
    BY <1>2
  <2>2. a = n * (2 * q + 1) + (r - n) /\ 2 * q + 1 \in Nat /\ r - n \in 0 .. n - 1
    BY <1>1, <1>2, <1>3, <1>5, <2>1
  <2>3. a % n = r - n
    BY <2>2, ModIs
  <2> QED
    BY <1>1, <1>2, <2>2, <2>3 DEF r
<1> QED
  BY <1>2, <1>4, <1>5

(* Handles that meet in the doubled table met before.                      *)
LEMMA ModHalve ==
    ASSUME NEW a \in Nat, NEW b \in Nat, NEW n \in Nat \ {0}, a % (2 * n) = b % (2 * n)
    PROVE  a % n = b % n
<1>1. a % n \in 0 .. n - 1 /\ (a % (2 * n) = a % n \/ a % (2 * n) = (a % n) + n)
  BY ModDouble
<1>2. b % n \in 0 .. n - 1 /\ (b % (2 * n) = b % n \/ b % (2 * n) = (b % n) + n)
  BY ModDouble
<1> DEFINE x == a % n
           y == b % n
           z == a % (2 * n)
<1>3. /\ x \in 0 .. n - 1 /\ (z = x \/ z = x + n)
      /\ y \in 0 .. n - 1 /\ (z = y \/ z = y + n)
  BY <1>1, <1>2
<1> HIDE DEF x, y, z
<1>4. x = y
  BY <1>3
<1> QED
  BY <1>4 DEF x, y

(* The places of two handles: one in the table, two in the doubled table.  *)
Halves(a, b, n) == a % n = b % n /\ a % (2 * n) # b % (2 * n)

(* Half a round further the place in the table is the same and the one in  *)
(* the doubled table the other.                                            *)
LEMMA ModShift ==
    ASSUME NEW a \in Nat, NEW n \in Nat \ {0}
    PROVE  Halves(a, a + n, n)
<1> DEFINE m == 2 * n
           q == a \div m
           r == a % m
<1>1. m \in Nat \ {0} /\ m = 2 * n
  OBVIOUS
<1> HIDE DEF m
<1>2. q \in Nat /\ r \in 0 .. m - 1 /\ a = m * q + r
  BY <1>1, DivMod
<1>3. a % n = (a + n) % n
  <2> DEFINE k == a \div n
             x == a % n
  <2>1. k \in Nat /\ x \in 0 .. n - 1 /\ a = n * k + x
    BY DivMod
  <2> HIDE DEF k, x
  <2>2. a + n = n * (k + 1) + x
    <3>1. n * (k + 1) = n * k + n
      BY <2>1
    <3> QED
      BY <2>1, <3>1
  <2>3. k + 1 \in Nat /\ (n * (k + 1) + x) % n = x
    BY <2>1, ModIs
  <2> QED
    BY <2>2, <2>3 DEF x
<1>4. (a + n) % m # a % m
  <2> HIDE DEF q, r
  <2>1. CASE r < n
    <3>1. r + n \in 0 .. m - 1 /\ a + n = m * q + (r + n) /\ r + n # r
      BY <1>1, <1>2, <2>1
    <3>2. (m * q + (r + n)) % m = r + n
      BY <1>1, <1>2, <3>1, ModIs
    <3> QED
      BY <3>1, <3>2 DEF r
  <2>2. CASE r >= n
    <3>1. m * (q + 1) = m * q + m
      BY <1>1, <1>2
    <3>2. r - n \in 0 .. m - 1 /\ a + n = m * (q + 1) + (r - n) /\ r - n # r /\ q + 1 \in Nat
      BY <1>1, <1>2, <2>2, <3>1
    <3>3. (m * (q + 1) + (r - n)) % m = r - n
      BY <1>1, <1>2, <3>2, ModIs
    <3> QED
      BY <3>2, <3>3 DEF r
  <2> QED
    BY <1>2, <2>1, <2>2
<1> QED
  BY <1>3, <1>4 DEF Halves, m
(* The handle tried next, before and after the walk comes round.           *)
LEMMA TriedIs ==
    ASSUME index \in 1 .. HandleMask + 1, NEW i \in Nat
    PROVE  /\ Tried(i) \in 1 .. HandleMask
           /\ index + i <= HandleMask => Tried(i) = index + i
           /\ index + i > HandleMask /\ index + i <= 2 * HandleMask =>
                  Tried(i) = index + i - HandleMask
<1>1. HandleMask \in Nat \ {0}
  BY SizeAssumption
<1> DEFINE a == index + i - 1
<1>2. a \in Nat /\ Tried(i) = 1 + (a % HandleMask)
  BY DEF Tried
<1>3. Tried(i) \in 1 .. HandleMask
  <2>1. a % HandleMask \in 0 .. HandleMask - 1
    BY <1>1, <1>2, DivMod
  <2> QED
    BY <1>1, <1>2, <2>1
<1>4. ASSUME index + i <= HandleMask PROVE Tried(i) = index + i
  <2>1. a \in 0 .. HandleMask - 1
    BY <1>1, <1>2, <1>4
  <2>2. a % HandleMask = a
    BY <1>1, <2>1, ModSmall
  <2> QED
    BY <1>2, <2>2
<1>5. ASSUME index + i > HandleMask, index + i <= 2 * HandleMask
      PROVE  Tried(i) = index + i - HandleMask
  <2> DEFINE r == index + i - 1 - HandleMask
  <2>1. r \in 0 .. HandleMask - 1 /\ a = HandleMask + r
    BY <1>1, <1>2, <1>5
  <2> HIDE DEF r
  <2>2. (HandleMask + r) % HandleMask = r
    BY <1>1, <2>1, ModSmall
  <2>3. Tried(i) = 1 + r
    BY <1>2, <2>1, <2>2
  <2> QED
    BY <1>1, <2>3 DEF r
<1> QED
  BY <1>3, <1>4, <1>5

(* Among the handles tried in the doubled table two are half a round       *)
(* apart, although the walk skips the place of handle 0.                   *)
LEMMA PairTried ==
    ASSUME NEW n \in Nat \ {0}, n % 2 = 0, 2 * n - 1 <= HandleMask,
           index \in 1 .. HandleMask + 1
    PROVE  \E i, j \in 0 .. 2 * n - 1 : Halves(Tried(i), Tried(j), n)
<1> USE SizeAssumption
<1>1. PICK half \in Nat : n = 2 * half /\ half >= 1
  <2> DEFINE k == n \div 2
  <2>1. k \in Nat /\ n = 2 * k + (n % 2)
    BY DivMod
  <2>2. n = 2 * k /\ k >= 1
    BY <2>1
  <2> QED
    BY <2>1, <2>2
<1>2. PICK odd \in Nat : HandleMask = 2 * odd + 1
  <2> DEFINE k == HandleMask \div 2
  <2>1. k \in Nat /\ HandleMask = 2 * k + (HandleMask % 2)
    BY DivMod
  <2> QED
    BY <2>1
<1>3. n >= 2 /\ n + 1 <= HandleMask
  BY <1>1
<1>4. CASE index + n <= HandleMask
  <2>1. Tried(0) = index /\ Tried(n) = index + n /\ index \in Nat /\ n \in 0 .. 2 * n - 1
    BY <1>3, <1>4, TriedIs
  <2>2. Halves(Tried(0), Tried(n), n)
    BY <2>1, ModShift
  <2> QED
    BY <1>3, <2>1, <2>2
<1>5. CASE index + n > HandleMask + 1
  <2> DEFINE i == HandleMask + 1 - index
  <2>1. i \in 0 .. n - 1 /\ index + i = HandleMask + 1 /\ index + (i + n) = HandleMask + 1 + n
    BY <1>5
  <2> HIDE DEF i
  <2>2. Tried(i) = 1
    BY <1>3, <2>1, TriedIs
  <2>3. Tried(i + n) = 1 + n
    BY <1>3, <2>1, TriedIs
  <2>4. Halves(1, 1 + n, n)
    BY ModShift
  <2>5. i \in 0 .. 2 * n - 1 /\ i + n \in 0 .. 2 * n - 1
    BY <2>1
  <2> QED
    BY <2>2, <2>3, <2>4, <2>5
<1>6. CASE index + n = HandleMask + 1
  <2> DEFINE m == 2 * n
             q == index \div m
             r == index % m
  <2>1. m \in Nat \ {0} /\ m = 2 * n
    OBVIOUS
  <2> HIDE DEF m
  <2>2. q \in Nat /\ r \in 0 .. m - 1 /\ index = m * q + r
    <3>1. index \in Nat
      OBVIOUS
    <3> QED
      BY <2>1, <3>1, DivMod
  <2> HIDE DEF q, r
  <2>3. r # 1
    <3> SUFFICES ASSUME r = 1 PROVE FALSE
      OBVIOUS
    <3>1. m * q = 2 * (n * q) /\ n * q \in Nat
      BY <2>1, <2>2
    <3> QED
      BY <1>1, <1>2, <1>6, <2>2, <3>1
  <2>4. \A i \in 0 .. n - 1 : Tried(i) = index + i /\ Tried(n + i) = 1 + i
    <3> TAKE i \in 0 .. n - 1
    <3>1. Tried(i) = index + i
      BY <1>6, TriedIs
    <3>2. Tried(n + i) = 1 + i
      BY <1>3, <1>6, TriedIs
    <3> QED
      BY <3>1, <3>2
  <2>5. \A i \in 0 .. n - 1 : i \in 0 .. 2 * n - 1 /\ n + i \in 0 .. 2 * n - 1
    OBVIOUS
  <2>6. \A x \in 0 .. m - 1 : (m * q + x) % m = x
    BY <2>1, <2>2, ModIs
  <2>7. \A y \in 1 .. n : y \in Nat /\ Halves(y, y + n, n) /\ y % m = y
    <3> TAKE y \in 1 .. n
    <3>1. y % m = y
      BY <1>3, <2>1, ModSmall
    <3>2. y \in Nat
      OBVIOUS
    <3> QED
      BY <3>1, <3>2, ModShift
  <2>8. ASSUME NEW i \in 0 .. n - 1, NEW k \in 0 .. n - 1, Halves(index + i, 1 + k, n)
        PROVE  \E u, v \in 0 .. 2 * n - 1 : Halves(Tried(u), Tried(v), n)
    <3>1. Halves(Tried(i), Tried(n + k), n)
      BY <2>4, <2>8
    <3> QED
      BY <2>5, <3>1
  <2>9. ASSUME NEW x \in 0 .. m - 1, NEW y \in 1 .. n, NEW a \in Nat, a = m * q + x,
               x = y + n \/ x = y - n
        PROVE  Halves(a, y, n)
    <3>1. a % m = x /\ y % m = y /\ x # y
      BY <2>6, <2>7, <2>9
    <3>2. x % m = x
      BY <2>1, ModSmall
    <3>3. a % n = x % n
      <4>1. x \in Nat /\ a % (2 * n) = x % (2 * n)
        BY <2>1, <3>1, <3>2
      <4> QED
        BY <4>1, ModHalve
    <3>4. x % n = y % n
      <4>1. CASE x = y + n
        BY <2>7, <4>1 DEF Halves
      <4>2. CASE x = y - n
        <5>1. x = 0 /\ y = n
          BY <2>9, <4>2
        <5>2. 0 % n = 0 /\ n % n = 0
          <6>1. n + 0 = n
            OBVIOUS
          <6> QED
            BY <6>1, ModSmall
        <5> QED
          BY <5>1, <5>2
      <4> QED
        BY <2>9, <4>1, <4>2
    <3> QED
      BY <2>1, <3>1, <3>3, <3>4 DEF Halves, m
  <2>10. CASE r = 0
    <3>1. Halves(index + 0, 1 + (n - 1), n)
      BY <1>3, <2>1, <2>2, <2>9, <2>10
    <3> QED
      BY <1>3, <2>8, <3>1
  <2>11. CASE r >= 2 /\ r <= n
    <3> DEFINE i == n + 1 - r
    <3>1. /\ i \in 0 .. n - 1 /\ n + 1 \in 0 .. m - 1
          /\ index + i = m * q + (n + 1) /\ index + i \in Nat
      BY <1>3, <2>1, <2>2, <2>11
    <3> HIDE DEF i
    <3>2. Halves(index + i, 1 + 0, n)
      BY <1>3, <2>9, <3>1
    <3>3. 0 \in 0 .. n - 1
      OBVIOUS
    <3> QED
      BY <2>8, <3>1, <3>2, <3>3
  <2>12. CASE r > n
    <3> DEFINE y == r - n
    <3>1. y \in 1 .. n /\ y - 1 \in 0 .. n - 1 /\ 1 + (y - 1) = y /\ r = y + n
      BY <1>3, <2>1, <2>2, <2>12
    <3> HIDE DEF y
    <3>2. index + 0 = m * q + r /\ index + 0 \in Nat
      BY <2>1, <2>2
    <3>3. Halves(index + 0, y, n)
      BY <2>2, <2>9, <3>1, <3>2
    <3>4. Halves(index + 0, 1 + (y - 1), n)
      BY <3>1, <3>3
    <3> QED
      BY <1>3, <2>8, <3>1, <3>4
  <2> QED
    BY <2>2, <2>3, <2>10, <2>11, <2>12
<1> QED
  BY <1>4, <1>5, <1>6

-----------------------------------------------------------------------------
(* Numbers have a least one.                                               *)
LEMMA LeastNat ==
    ASSUME NEW T, T \subseteq Nat, T # {}
    PROVE  \E x \in T : \A y \in T : x <= y
<1> DEFINE R == OpToRel(<, Nat)
<1>1. IsWellFoundedOn(R, Nat)
  BY NatLessThanWellFounded
<1>2. \A x, y \in Nat : y < x => <<y, x>> \in R
  BY DEF OpToRel
<1> HIDE DEF R
<1>3. PICK x \in T : \A y \in T : ~(<<y, x>> \in R)
  BY <1>1, WFMin
<1>4. ASSUME NEW y \in T PROVE x <= y
  <2>1. x \in Nat /\ y \in Nat /\ ~(y < x)
    BY <1>2, <1>3
  <2> QED
    BY <2>1
<1> QED
  BY <1>4

(* The handle that Put takes.                                              *)
Chosen(tab) == CHOOSE i \in Vacant(tab) : \A j \in Vacant(tab) : i <= j

(* It is one that is tried and whose place is free.                        *)
LEMMA ChosenFree ==
    ASSUME index \in 1 .. HandleMask + 1, NEW tab, Len(tab) \in Nat \ {0}, Vacant(tab) # {}
    PROVE  /\ Tried(Chosen(tab)) \in 1 .. HandleMask
           /\ tab[1 + (Tried(Chosen(tab)) % Len(tab))] = None
<1>1. Vacant(tab) \subseteq Nat
  BY DEF Vacant, Size
<1>2. \E i \in Vacant(tab) : \A j \in Vacant(tab) : i <= j
  BY <1>1, LeastNat
<1>3. Chosen(tab) \in Vacant(tab)
  BY <1>2, Zenon DEF Chosen
<1>4. Chosen(tab) \in Nat /\ At(tab, Tried(Chosen(tab))) = None
  BY <1>1, <1>3 DEF Vacant
<1> QED
  BY <1>4, TriedIs DEF At, Size
-----------------------------------------------------------------------------
(* The pass loses nothing when contexts stay or move up in the table and   *)
(* those that are launched were not among the ones it met.                 *)
LEMMA SweepKept ==
    ASSUME SweepInv, sweep' = sweep,
           \A c \in Ctx : stage[c] \in {"live", "dying"} => stage'[c] = stage[c],
           \A c \in Ctx : stage[c] = "live" =>
               given'[c] = given[c] /\ Place(given[c]) \in Nat /\ Place(given[c])' \in Nat
               /\ Place(given[c]) <= Place(given[c])'
    PROVE  SweepInv'
<1>1. sweep' \in [i : Nat, n : {0, 1}, met : SUBSET Ctx]
  BY DEF SweepInv
<1>2. ASSUME NEW c \in sweep'.met
      PROVE  /\ stage'[c] \in {"live", "dying"}
             /\ sweep'.n = 0 /\ stage'[c] = "live" => sweep'.i <= Place(given[c])'
  <2>1. /\ c \in Ctx /\ stage[c] \in {"live", "dying"} /\ sweep.i \in Nat
        /\ sweep.n = 0 /\ stage[c] = "live" => sweep.i <= Place(given[c])
    BY <1>2 DEF SweepInv
  <2>2. stage'[c] = stage[c]
    BY <2>1
  <2> QED
    BY <2>1, <2>2
<1> QED
  BY <1>1, <1>2 DEF SweepInv

(* A place in a table.                                                     *)
LEMMA PlaceType ==
    ASSUME NEW h \in Nat, NEW n \in Nat \ {0}
    PROVE  1 + (h % n) \in 1 .. n
<1>1. h % n \in 0 .. n - 1
  BY DivMod
<1> QED
  BY <1>1

(* skynet_handle_register puts a context into a table with a free place.   *)
LEMMA PutStep ==
    ASSUME IInv, NEW c \in Ctx, stage[c] = "free", NEW tab, TableOK(tab), Vacant(tab) # {},
           Put(c, tab), UNCHANGED <<sweep, crash>>,
           \A d \in Ctx : stage[d] = "live" =>
               1 + (given[d] % Len(slot)) <= 1 + (given[d] % Len(tab))
    PROVE  IInv'
<1> DEFINE h == Tried(Chosen(tab))
           n == Len(tab)
           p == 1 + (h % n)
<1>1. /\ n \in Nat \ {0} /\ tab \in Seq(Contents) /\ c # None /\ HandleMask \in Nat
      /\ index \in 1 .. HandleMask + 1
  BY SizeAssumption, NoneAssumption DEF TableOK, SizeOK, IInv, TypeOK
<1>2. h \in 1 .. HandleMask /\ tab[p] = None
  BY <1>1, ChosenFree
<1>3. /\ slot' = [tab EXCEPT ![p] = c] /\ index' = h + 1
      /\ given' = [given EXCEPT ![c] = h] /\ stage' = [stage EXCEPT ![c] = "new"]
      /\ handle' = [handle EXCEPT ![c] = 0]
  BY Zenon DEF Put, Chosen, Size
<1> HIDE DEF h, n
<1>4. p \in 1 .. n
  BY <1>1, <1>2, PlaceType
<1>5. /\ stage \in [Ctx -> {"free", "new", "live", "dying"}]
      /\ given \in [Ctx -> 0 .. HandleMask] /\ handle \in [Ctx -> 0 .. HandleMask]
      /\ crash \in {None, "null", "collide", "limit"} /\ crash # "collide"
  BY DEF IInv, TypeOK, GrowAssert
<1>6. /\ stage'[c] = "new" /\ given'[c] = h /\ handle'[c] = 0
      /\ \A d \in Ctx : d # c => stage'[d] = stage[d] /\ given'[d] = given[d]
                                 /\ handle'[d] = handle[d]
  BY <1>3, <1>5
<1> HIDE DEF p
<1>7. /\ slot' \in Seq(Contents) /\ Len(slot') = n /\ slot'[p] = c
      /\ \A q \in 1 .. n : q # p => slot'[q] = tab[q]
  BY <1>1, <1>3, <1>4 DEF n, Contents
<1>8. TypeOK'
  <2>1. index' \in 1 .. HandleMask + 1 /\ Len(slot') <= HandleMask + 1
    BY <1>1, <1>2, <1>3, <1>7 DEF TableOK, SizeOK, n
  <2>2. /\ stage' \in [Ctx -> {"free", "new", "live", "dying"}]
        /\ given' \in [Ctx -> 0 .. HandleMask] /\ handle' \in [Ctx -> 0 .. HandleMask]
    BY <1>1, <1>2, <1>3, <1>5
  <2> QED
    BY <1>5, <1>7, <2>1, <2>2 DEF TypeOK, Contents, Size
<1>9. TableOK(slot)'
  <2>1. SizeOK(Len(slot'))
    BY <1>7 DEF TableOK, n
  <2>2. ASSUME NEW d \in Ctx, stage'[d] \in InTable
        PROVE  slot'[1 + (given'[d] % Len(slot'))] = d
    <3>1. CASE d = c
      BY <1>6, <1>7, <3>1 DEF p
    <3>2. CASE d # c
      <4>1. tab[1 + (given[d] % n)] = d /\ d # None /\ given[d] \in Nat
        BY <1>5, <1>6, <2>2, <3>2, NoneAssumption DEF TableOK, n
      <4>2. 1 + (given[d] % n) \in 1 .. n
        BY <1>1, <4>1, PlaceType
      <4>3. 1 + (given[d] % n) # p
        BY <1>2, <4>1 DEF p
      <4> QED
        BY <1>6, <1>7, <3>2, <4>1, <4>2, <4>3
    <3> QED
      BY <3>1, <3>2
  <2>3. ASSUME NEW q \in 1 .. Len(slot'), slot'[q] # None
        PROVE  stage'[slot'[q]] \in InTable /\ q = 1 + (given'[slot'[q]] % Len(slot'))
    <3>1. CASE q = p
      BY <1>6, <1>7, <3>1 DEF p, InTable
    <3>2. CASE q # p
      <4>1. tab[q] # None /\ slot'[q] = tab[q] /\ tab[q] \in Ctx
        BY <1>1, <1>7, <2>3, <3>2 DEF n, Contents
      <4>2. stage[tab[q]] \in InTable /\ q = 1 + (given[tab[q]] % n)
        BY <1>7, <2>3, <4>1 DEF TableOK, n
      <4>3. tab[q] # c
        BY <4>2 DEF InTable
      <4> QED
        BY <1>6, <1>7, <4>1, <4>2, <4>3
    <3> QED
      BY <3>1, <3>2
  <2> QED
    BY <1>7, <2>1, <2>2, <2>3 DEF TableOK
<1>10. Handled'
  BY <1>2, <1>6 DEF Handled, IInv, InTable
<1>11. IsFiniteSet(Launching)'
  <2>1. Launching' = Launching \cup {c}
    BY <1>6 DEF Launching
  <2> QED
    BY <2>1, FS_AddElement DEF IInv
<1>12. SweepInv'
  <2>1. SweepInv /\ sweep' = sweep
    BY DEF IInv
  <2>2. \A d \in Ctx : stage[d] \in {"live", "dying"} => stage'[d] = stage[d]
    BY <1>6
  <2>3. ASSUME NEW d \in Ctx, stage[d] = "live"
        PROVE  given'[d] = given[d] /\ Place(given[d]) \in Nat /\ Place(given[d])' \in Nat
               /\ Place(given[d]) <= Place(given[d])'
    <3>1. given'[d] = given[d] /\ given[d] \in Nat
      BY <1>5, <1>6, <2>3
    <3>2. Place(given[d]) = 1 + (given[d] % Len(slot)) /\ Place(given[d])' = 1 + (given[d] % n)
      BY <1>7, <3>1 DEF Place
    <3>3. Len(slot) \in Nat \ {0}
      BY DEF IInv, TableOK, SizeOK
    <3>4. 1 + (given[d] % Len(slot)) \in Nat /\ 1 + (given[d] % n) \in Nat
      <4>1. 1 + (given[d] % Len(slot)) \in 1 .. Len(slot) /\ 1 + (given[d] % n) \in 1 .. n
        BY <1>1, <3>1, <3>3, PlaceType
      <4> QED
        BY <4>1
    <3> QED
      BY <2>3, <3>1, <3>2, <3>4 DEF n
  <2> QED
    BY <2>1, <2>2, <2>3, SweepKept
<1>13. GrowAssert'
  BY <1>5 DEF GrowAssert
<1> QED
  BY <1>8, <1>9, <1>10, <1>11, <1>12, <1>13 DEF IInv
-----------------------------------------------------------------------------
(* The doubled table, when every place was taken and nothing is being      *)
(* launched: each context is where its handle says, and one of the handles *)
(* tried has a free place.                                                 *)
LEMMA GrownOK ==
    ASSUME IInv, Launching = {}, 2 * Len(slot) - 1 <= HandleMask,
           \A p \in 1 .. Len(slot) : slot[p] # None
    PROVE  /\ TableOK(Grown(slot)) /\ Vacant(Grown(slot)) # {}
           /\ \A d \in Ctx : stage[d] = "live" =>
                 1 + (given[d] % Len(slot)) <= 1 + (given[d] % Len(Grown(slot)))
<1> DEFINE n == Len(slot)
           m == 2 * n
           tab == Grown(slot)
           Here(p) == {q \in 1 .. n : handle[slot[q]] % m = p - 1}
<1>1. /\ n \in Nat \ {0} /\ n % 2 = 0 /\ m \in Nat \ {0} /\ m <= HandleMask + 1
      /\ slot \in Seq(Contents) /\ HandleMask \in Nat /\ index \in 1 .. HandleMask + 1
  BY SizeAssumption DEF IInv, TypeOK, TableOK, SizeOK
<1>2. tab = [p \in 1 .. m |-> IF Here(p) = {} THEN None ELSE slot[CHOOSE q \in Here(p) : TRUE]]
  BY DEF Grown, Size
<1>3. \A c \in Ctx : stage[c] \in InTable =>
          /\ stage[c] = "live" /\ given[c] \in Nat /\ handle[c] = given[c]
          /\ 1 + (given[c] % n) \in 1 .. n /\ slot[1 + (given[c] % n)] = c
  <2> TAKE c \in Ctx
  <2> HAVE stage[c] \in InTable
  <2>1. stage[c] = "live"
    BY DEF Launching, InTable
  <2>2. given[c] \in Nat /\ handle[c] = given[c] /\ slot[1 + (given[c] % n)] = c
    BY <1>1, <2>1 DEF IInv, Handled, TableOK, InTable
  <2> QED
    BY <1>1, <2>1, <2>2, PlaceType
<1>4. \A q \in 1 .. n : /\ slot[q] \in Ctx /\ stage[slot[q]] \in InTable
                        /\ q = 1 + (given[slot[q]] % n)
  <2> TAKE q \in 1 .. n
  <2>1. slot[q] \in Contents /\ slot[q] # None
    BY <1>1
  <2> QED
    BY <2>1 DEF IInv, TableOK, Contents
<1> HIDE DEF n, m, tab
<1>5. ASSUME NEW q \in 1 .. n, NEW k \in 1 .. n, handle[slot[q]] % m = handle[slot[k]] % m
      PROVE  q = k
  <2>1. /\ handle[slot[q]] \in Nat /\ q = 1 + (handle[slot[q]] % n)
        /\ handle[slot[k]] \in Nat /\ k = 1 + (handle[slot[k]] % n)
    BY <1>3, <1>4
  <2>2. handle[slot[q]] % n = handle[slot[k]] % n
    BY <1>1, <1>5, <2>1, ModHalve DEF m
  <2> QED
    BY <2>1, <2>2
<1>6. /\ tab \in Seq(Contents) /\ Len(tab) = m
  <2>1. \A p \in 1 .. m : tab[p] \in Contents
    <3> TAKE p \in 1 .. m
    <3>1. CASE Here(p) = {}
      BY <1>2, <3>1 DEF Contents
    <3>2. CASE Here(p) # {}
      <4>1. (CHOOSE q \in Here(p) : TRUE) \in 1 .. n
        BY <3>2
      <4> QED
        BY <1>1, <1>2, <3>2, <4>1 DEF n
    <3> QED
      BY <3>1, <3>2
  <2> QED
    BY <1>1, <1>2, <2>1
<1>7. ASSUME NEW q \in 1 .. n
      PROVE  1 + (handle[slot[q]] % m) \in 1 .. m /\ tab[1 + (handle[slot[q]] % m)] = slot[q]
  <2> DEFINE p == 1 + (handle[slot[q]] % m)
  <2>1. handle[slot[q]] \in Nat
    BY <1>3, <1>4
  <2>2. p \in 1 .. m /\ handle[slot[q]] % m = p - 1
    <3>1. handle[slot[q]] % m \in 0 .. m - 1
      BY <1>1, <2>1, DivMod
    <3> QED
      BY <1>1, <3>1
  <2> HIDE DEF p
  <2>3. q \in Here(p)
    BY <2>2
  <2>4. \A k \in Here(p) : k = q
    BY <1>5, <2>2
  <2>5. (CHOOSE k \in Here(p) : TRUE) = q
    BY <2>3, <2>4
  <2>6. tab[p] = slot[q]
    BY <1>2, <2>2, <2>3, <2>5
  <2> QED
    BY <2>2, <2>6 DEF p
<1>8. ASSUME NEW p \in 1 .. m, tab[p] # None
      PROVE  \E q \in 1 .. n : tab[p] = slot[q] /\ p = 1 + (handle[slot[q]] % m)
  <2>1. Here(p) # {}
    BY <1>2, <1>8
  <2>2. PICK q \in Here(p) : tab[p] = slot[q]
    BY <1>2, <2>1
  <2>3. q \in 1 .. n /\ handle[slot[q]] % m = p - 1 /\ handle[slot[q]] \in Nat
    BY <1>3, <1>4
  <2>4. p = 1 + (p - 1)
    BY <1>1
  <2> QED
    BY <2>2, <2>3, <2>4
<1>9. TableOK(tab)
  <2>1. SizeOK(m)
    <3>1. m % 2 = 0
      BY <1>1 DEF m
    <3> QED
      BY <1>1, <3>1 DEF SizeOK
  <2>2. ASSUME NEW c \in Ctx, stage[c] \in InTable PROVE tab[1 + (given[c] % m)] = c
    <3> DEFINE q == 1 + (given[c] % n)
    <3>1. q \in 1 .. n /\ slot[q] = c /\ handle[c] = given[c]
      BY <1>3, <2>2
    <3> HIDE DEF q
    <3> QED
      BY <1>7, <3>1
  <2>3. ASSUME NEW p \in 1 .. m, tab[p] # None
        PROVE  stage[tab[p]] \in InTable /\ p = 1 + (given[tab[p]] % m)
    <3>1. PICK q \in 1 .. n : tab[p] = slot[q] /\ p = 1 + (handle[slot[q]] % m)
      BY <1>8, <2>3
    <3>2. stage[slot[q]] \in InTable /\ handle[slot[q]] = given[slot[q]]
      BY <1>3, <1>4
    <3> QED
      BY <3>1, <3>2
  <2> QED
    BY <1>6, <2>1, <2>2, <2>3 DEF TableOK
<1>10. Vacant(tab) # {}
  <2>1. PICK i \in 0 .. m - 1, j \in 0 .. m - 1 : Halves(Tried(i), Tried(j), n)
    <3>1. 2 * n - 1 <= HandleMask
      BY <1>1 DEF m
    <3> QED
      BY <1>1, <3>1, PairTried DEF m
  <2> DEFINE a == Tried(i)
             b == Tried(j)
             pa == 1 + (a % m)
             pb == 1 + (b % m)
  <2>2. a \in Nat /\ b \in Nat /\ a % n = b % n /\ a % m # b % m
    <3>1. i \in Nat /\ j \in Nat
      BY <1>1
    <3> QED
      <4>1. a \in 1 .. HandleMask /\ b \in 1 .. HandleMask
        BY <1>1, <3>1, TriedIs
      <4>2. a % n = b % n /\ a % (2 * n) # b % (2 * n)
        BY <2>1 DEF Halves
      <4> HIDE DEF a, b
      <4> QED
        BY <1>1, <4>1, <4>2 DEF m
  <2> HIDE DEF a, b
  <2>3. pa \in 1 .. m /\ pb \in 1 .. m
    BY <1>1, <2>2, PlaceType
  <2>4. tab[pa] = None \/ tab[pb] = None
    <3> SUFFICES ASSUME tab[pa] # None, tab[pb] # None PROVE FALSE
      OBVIOUS
    <3>1. PICK q \in 1 .. n : pa = 1 + (handle[slot[q]] % m)
      BY <1>8, <2>3
    <3>2. PICK k \in 1 .. n : pb = 1 + (handle[slot[k]] % m)
      BY <1>8, <2>3
    <3>3. /\ handle[slot[q]] \in Nat /\ q = 1 + (handle[slot[q]] % n)
          /\ handle[slot[k]] \in Nat /\ k = 1 + (handle[slot[k]] % n)
      BY <1>3, <1>4
    <3>4. a % m = handle[slot[q]] % m /\ b % m = handle[slot[k]] % m
      <4>1. a % m \in Int /\ handle[slot[q]] % m \in Int /\ b % m \in Int /\ handle[slot[k]] % m \in Int
        BY <1>1, <2>2, <3>3
      <4> QED
        BY <3>1, <3>2, <4>1
    <3>5. a % n = handle[slot[q]] % n /\ b % n = handle[slot[k]] % n
      <4>1. m = 2 * n
        BY DEF m
      <4>2. a % (2 * n) = handle[slot[q]] % (2 * n) /\ b % (2 * n) = handle[slot[k]] % (2 * n)
        BY <3>4, <4>1
      <4>3. a % n = handle[slot[q]] % n
        BY <1>1, <2>2, <3>3, <4>2, ModHalve
      <4>4. b % n = handle[slot[k]] % n
        BY <1>1, <2>2, <3>3, <4>2, ModHalve
      <4> QED
        BY <4>3, <4>4
    <3>6. q = k
      BY <2>2, <3>3, <3>5
    <3> QED
      BY <2>2, <3>4, <3>6
  <2>5. i \in Vacant(tab) \/ j \in Vacant(tab)
    BY <1>6, <2>4 DEF Vacant, At, Size, a, b
  <2> QED
    BY <2>5
<1>11. ASSUME NEW d \in Ctx, stage[d] = "live"
       PROVE  1 + (given[d] % n) <= 1 + (given[d] % m)
  <2>1. given[d] \in Nat
    BY <1>3, <1>11 DEF InTable
  <2>2. /\ given[d] % n \in 0 .. n - 1 /\ given[d] % m \in 0 .. m - 1
        /\ given[d] % m = given[d] % n \/ given[d] % m = (given[d] % n) + n
    BY <1>1, <2>1, ModDouble DEF m
  <2> DEFINE x == given[d] % n
             y == given[d] % m
  <2> HIDE DEF x, y
  <2>3. x \in Nat /\ y \in Nat /\ (y = x \/ y = x + n)
    BY <1>1, <2>2 DEF x, y
  <2>4. 1 + x <= 1 + y
    BY <1>1, <2>3
  <2> QED
    BY <2>4 DEF x, y
<1> QED
  BY <1>6, <1>9, <1>10, <1>11 DEF tab, n

(* The table is full only if no two contexts meet in the doubled one.      *)
LEMMA NoCollision ==
    ASSUME IInv, Launching = {}, \A p \in 1 .. Len(slot) : slot[p] # None
    PROVE  ~Collides(slot)
<1> DEFINE n == Len(slot)
<1>1. n \in Nat \ {0} /\ slot \in Seq(Contents)
  BY DEF IInv, TableOK, SizeOK
<1>2. \A q \in 1 .. n : /\ handle[slot[q]] \in Nat /\ q = 1 + (handle[slot[q]] % n)
  <2> TAKE q \in 1 .. n
  <2>1. slot[q] \in Ctx
    BY <1>1 DEF Contents
  <2>2. stage[slot[q]] \in InTable /\ q = 1 + (given[slot[q]] % n)
    BY DEF IInv, TableOK
  <2>3. stage[slot[q]] = "live"
    BY <2>1, <2>2 DEF Launching, InTable
  <2>4. handle[slot[q]] = given[slot[q]] /\ given[slot[q]] \in 1 .. HandleMask
    BY <2>1, <2>3 DEF IInv, Handled, InTable
  <2> QED
    BY <2>2, <2>4, SizeAssumption
<1> HIDE DEF n
<1>3. ASSUME NEW p \in 1 .. n, NEW q \in 1 .. n,
             handle[slot[p]] % (2 * n) = handle[slot[q]] % (2 * n)
      PROVE  p = q
  <2>1. handle[slot[p]] % n = handle[slot[q]] % n
    BY <1>1, <1>2, <1>3, ModHalve
  <2> QED
    BY <1>2, <2>1
<1> QED
  BY <1>3 DEF Collides, Size, n
-----------------------------------------------------------------------------
(* A launch begins when no other is under way.                             *)
LEMMA NoneLaunching ==
    ASSUME OneLaunch, IInv, NEW c \in Ctx, CanLaunch(c)
    PROVE  stage[c] = "free" /\ Launching = {}
<1>1. Cardinality(Launching) < MaxLaunch /\ stage[c] = "free"
  BY DEF CanLaunch
<1>2. IsFiniteSet(Launching) /\ Cardinality(Launching) \in Nat
  BY FS_CardinalityType DEF IInv
<1>3. Cardinality(Launching) = 0
  BY <1>1, <1>2, SizeAssumption DEF OneLaunch
<1> QED
  BY <1>1, <1>2, <1>3, FS_EmptySet

(* A place is found at once.                                               *)
LEMMA RegisterStep ==
    ASSUME OneLaunch, IInv, NEW c \in Ctx, Register(c)
    PROVE  IInv'
<1>1. CanLaunch(c) /\ Vacant(slot) # {} /\ Put(c, slot) /\ UNCHANGED <<sweep, crash>>
  BY DEF Register
<1>2. stage[c] = "free"
  BY <1>1, NoneLaunching
<1>3. TableOK(slot)
  BY DEF IInv
<1>4. ASSUME NEW d \in Ctx PROVE 1 + (given[d] % Len(slot)) <= 1 + (given[d] % Len(slot))
  <2>1. given[d] \in Nat /\ Len(slot) \in Nat \ {0}
    BY SizeAssumption DEF IInv, TypeOK, TableOK, SizeOK
  <2> QED
    BY <2>1
<1> QED
  BY <1>1, <1>2, <1>3, <1>4, PutStep

(* The table doubles first.                                                *)
LEMMA RegisterGrowStep ==
    ASSUME OneLaunch, IInv, NEW c \in Ctx, RegisterGrow(c)
    PROVE  IInv'
<1>1. /\ CanLaunch(c) /\ Put(c, Grown(slot)) /\ UNCHANGED <<sweep, crash>>
      /\ 2 * Len(slot) - 1 <= HandleMask /\ \A p \in 1 .. Len(slot) : slot[p] # None
  BY DEF RegisterGrow, Size
<1>2. stage[c] = "free" /\ Launching = {}
  BY <1>1, NoneLaunching
<1>3. /\ TableOK(Grown(slot)) /\ Vacant(Grown(slot)) # {}
      /\ \A d \in Ctx : stage[d] = "live" =>
             1 + (given[d] % Len(slot)) <= 1 + (given[d] % Len(Grown(slot)))
  BY <1>1, <1>2, GrownOK
<1> QED
  BY <1>1, <1>2, <1>3, PutStep

(* A step that leaves the table and the contexts alone.                    *)
LEMMA TableKept ==
    ASSUME IInv, UNCHANGED <<slot, index, handle, stage, given>>
    PROVE  /\ TableOK(slot)' /\ Handled' /\ IsFiniteSet(Launching)'
           /\ crash' \in {None, "null", "collide", "limit"} => TypeOK'
           /\ sweep' = sweep => SweepInv'
<1>1. TableOK(slot)'
  BY DEF IInv, TableOK
<1>2. Handled'
  BY DEF IInv, Handled
<1>3. Launching' = Launching
  BY DEF Launching
<1>4. crash' \in {None, "null", "collide", "limit"} => TypeOK'
  BY DEF IInv, TypeOK
<1>5. sweep' = sweep => SweepInv'
  BY DEF IInv, SweepInv, Place
<1> QED
  BY <1>1, <1>2, <1>3, <1>4, <1>5 DEF IInv

(* The assertion of skynet_handle_register does not fail.                  *)
LEMMA RegisterCrashStep ==
    ASSUME OneLaunch, IInv, NEW c \in Ctx, RegisterCrash(c)
    PROVE  IInv'
<1>1. /\ CanLaunch(c) /\ (crash' = "collide" => Collides(slot))
      /\ crash' = IF 2 * Size(slot) - 1 > HandleMask THEN "limit"
                  ELSE IF \E p \in 1 .. Size(slot) : slot[p] = None THEN "null" ELSE "collide"
      /\ UNCHANGED <<slot, index, handle, stage, given, sweep>>
  BY DEF RegisterCrash
<1>2. crash' # "collide"
  <2> SUFFICES ASSUME crash' = "collide" PROVE FALSE
    OBVIOUS
  <2>1. \A p \in 1 .. Len(slot) : slot[p] # None
    BY <1>1 DEF Size
  <2> QED
    BY <1>1, <2>1, NoneLaunching, NoCollision
<1>3. crash' \in {"limit", "null", "collide"}
  BY <1>1
<1> QED
  BY <1>1, <1>2, <1>3, TableKept DEF IInv, GrowAssert

(* ctx->handle = skynet_handle_register(ctx).                              *)
LEMMA AssignStep ==
    ASSUME IInv, NEW c \in Ctx, Assign(c)
    PROVE  IInv'
<1>1. /\ stage[c] = "new" /\ handle' = [handle EXCEPT ![c] = given[c]]
      /\ stage' = [stage EXCEPT ![c] = "live"]
      /\ UNCHANGED <<slot, index, given, sweep, crash>>
  BY DEF Assign
<1>2. /\ stage \in [Ctx -> {"free", "new", "live", "dying"}]
      /\ given \in [Ctx -> 0 .. HandleMask] /\ handle \in [Ctx -> 0 .. HandleMask]
  BY DEF IInv, TypeOK
<1>3. /\ stage'[c] = "live" /\ handle'[c] = given[c]
      /\ \A d \in Ctx : d # c => stage'[d] = stage[d] /\ handle'[d] = handle[d]
  BY <1>1, <1>2
<1>4. TypeOK'
  <2>1. /\ stage' \in [Ctx -> {"free", "new", "live", "dying"}]
        /\ handle' \in [Ctx -> 0 .. HandleMask]
    BY <1>1, <1>2
  <2> QED
    BY <1>1, <2>1 DEF IInv, TypeOK
<1>5. \A d \in Ctx : stage'[d] \in InTable <=> stage[d] \in InTable
  BY <1>1, <1>3 DEF InTable
<1>6. TableOK(slot)'
  <2>1. \A p \in 1 .. Len(slot) : slot[p] # None => slot[p] \in Ctx
    BY DEF IInv, TableOK, Contents
  <2> QED
    BY <1>1, <1>5, <2>1 DEF IInv, TableOK
<1>7. Handled'
  BY <1>1, <1>3 DEF IInv, Handled, InTable
<1>8. IsFiniteSet(Launching)'
  <2>1. Launching' = Launching \ {c}
    BY <1>3 DEF Launching
  <2> QED
    BY <2>1, FS_RemoveElement DEF IInv
<1>9. SweepInv'
  <2>1. c \notin sweep.met
    BY <1>1 DEF IInv, SweepInv
  <2>2. \A d \in sweep.met : d \in Ctx /\ stage'[d] = stage[d] /\ Place(given[d])' = Place(given[d])
    BY <1>1, <1>3, <2>1 DEF IInv, SweepInv, Place
  <2> QED
    BY <1>1, <2>2 DEF IInv, SweepInv
<1> QED
  BY <1>1, <1>4, <1>6, <1>7, <1>8, <1>9 DEF IInv, GrowAssert
-----------------------------------------------------------------------------
(* Who is found under a handle: a launched context that has it, in its     *)
(* place.                                                                  *)
LEMMA HolderIs ==
    ASSUME IInv, NEW h \in 1 .. HandleMask
    PROVE  /\ Place(h) \in 1 .. Len(slot)
           /\ Holder(h) # None =>
                 /\ Holder(h) \in Ctx /\ slot[Place(h)] = Holder(h)
                 /\ stage[Holder(h)] = "live" /\ given[Holder(h)] = h
<1>1. /\ Len(slot) \in Nat \ {0} /\ slot \in Seq(Contents) /\ h \in Nat
  BY SizeAssumption DEF IInv, TableOK, SizeOK
<1>2. Place(h) \in 1 .. Len(slot)
  BY <1>1, PlaceType DEF Place
<1>3. ASSUME Holder(h) # None
      PROVE  /\ Holder(h) \in Ctx /\ slot[Place(h)] = Holder(h)
             /\ stage[Holder(h)] = "live" /\ given[Holder(h)] = h
  <2>1. Holder(h) = slot[Place(h)] /\ slot[Place(h)] # None /\ handle[slot[Place(h)]] = h
    BY <1>3 DEF Holder, At, Size, Place
  <2>2. slot[Place(h)] \in Ctx /\ stage[slot[Place(h)]] \in InTable
    BY <1>1, <1>2, <2>1 DEF IInv, TableOK, Contents
  <2>3. stage[slot[Place(h)]] = "live" /\ given[slot[Place(h)]] = h
    BY <2>1, <2>2 DEF IInv, Handled, InTable
  <2> QED
    BY <2>1, <2>2, <2>3
<1> QED
  BY <1>2, <1>3

(* skynet_handle_retire takes one context out of the table.                *)
LEMMA RetiredStep ==
    ASSUME IInv, NEW h \in 1 .. HandleMask, Holder(h) # None, Retired(h),
           UNCHANGED <<index, handle, given, crash>>
    PROVE  /\ TypeOK' /\ TableOK(slot)' /\ Handled' /\ IsFiniteSet(Launching)' /\ GrowAssert'
           /\ Len(slot') = Len(slot) /\ stage'[Holder(h)] = "dying" /\ Holder(h) \in Ctx
           /\ \A d \in Ctx : d # Holder(h) => stage'[d] = stage[d]
<1> DEFINE c == Holder(h)
           p == Place(h)
<1>1. p \in 1 .. Len(slot) /\ c \in Ctx /\ slot[p] = c /\ stage[c] = "live" /\ given[c] = h
  BY HolderIs
<1>2. slot' = [slot EXCEPT ![p] = None] /\ stage' = [stage EXCEPT ![c] = "dying"]
  BY DEF Retired, Place, Size
<1> HIDE DEF c, p
<1>3. /\ Len(slot) \in Nat \ {0} /\ slot \in Seq(Contents) /\ SizeOK(Len(slot))
      /\ stage \in [Ctx -> {"free", "new", "live", "dying"}]
  BY DEF IInv, TableOK, SizeOK, TypeOK
<1>4. /\ slot' \in Seq(Contents) /\ Len(slot') = Len(slot) /\ slot'[p] = None
      /\ \A q \in 1 .. Len(slot) : q # p => slot'[q] = slot[q]
  BY <1>1, <1>2, <1>3 DEF Contents
<1>5. stage'[c] = "dying" /\ \A d \in Ctx : d # c => stage'[d] = stage[d]
  BY <1>1, <1>2, <1>3
<1>6. TypeOK'
  <2>1. stage' \in [Ctx -> {"free", "new", "live", "dying"}]
    BY <1>1, <1>2, <1>3
  <2>2. slot' \in Seq(Ctx \cup {None}) /\ Size(slot') <= HandleMask + 1
    BY <1>3, <1>4 DEF Contents, Size, SizeOK
  <2> QED
    BY <2>1, <2>2 DEF IInv, TypeOK
<1>7. TableOK(slot)'
  <2>1. ASSUME NEW d \in Ctx, stage'[d] \in InTable
        PROVE  slot'[1 + (given'[d] % Len(slot'))] = d
    <3>1. d # c /\ stage[d] \in InTable
      BY <1>5, <2>1 DEF InTable
    <3>2. slot[1 + (given[d] % Len(slot))] = d /\ given[d] \in Nat
      BY <3>1, SizeAssumption DEF IInv, TableOK, TypeOK
    <3>3. 1 + (given[d] % Len(slot)) \in 1 .. Len(slot)
      BY <1>3, <3>2, PlaceType
    <3>4. 1 + (given[d] % Len(slot)) # p
      BY <1>1, <3>1, <3>2
    <3> QED
      BY <1>4, <3>2, <3>3, <3>4
  <2>2. ASSUME NEW q \in 1 .. Len(slot'), slot'[q] # None
        PROVE  stage'[slot'[q]] \in InTable /\ q = 1 + (given'[slot'[q]] % Len(slot'))
    <3>1. q # p /\ slot'[q] = slot[q] /\ q \in 1 .. Len(slot)
      BY <1>4, <2>2
    <3>2. slot[q] \in Ctx /\ stage[slot[q]] \in InTable /\ q = 1 + (given[slot[q]] % Len(slot))
      BY <1>3, <2>2, <3>1 DEF IInv, TableOK, Contents
    <3>3. slot[q] # c
      BY <1>1, <3>1, <3>2 DEF p, Place
    <3> QED
      BY <1>4, <1>5, <3>1, <3>2, <3>3
  <2> QED
    BY <1>3, <1>4, <2>1, <2>2 DEF TableOK
<1>8. Handled'
  BY <1>5 DEF IInv, Handled, InTable
<1>9. Launching' = Launching
  BY <1>1, <1>5 DEF Launching
<1> QED
  BY <1>1, <1>4, <1>5, <1>6, <1>7, <1>8, <1>9 DEF IInv, GrowAssert, c

(* skynet_handle_retire, by a service.                                     *)
LEMMA RetireStep ==
    ASSUME IInv, NEW h \in 1 .. HandleMask, Retire(h)
    PROVE  IInv'
<1>1. Holder(h) # None /\ Retired(h) /\ UNCHANGED <<index, handle, given, sweep, crash>>
  BY DEF Retire
<1>2. /\ TypeOK' /\ TableOK(slot)' /\ Handled' /\ IsFiniteSet(Launching)' /\ GrowAssert'
      /\ Len(slot') = Len(slot) /\ stage'[Holder(h)] = "dying" /\ Holder(h) \in Ctx
      /\ \A d \in Ctx : d # Holder(h) => stage'[d] = stage[d]
  BY <1>1, RetiredStep
<1>3. SweepInv'
  <2>1. ASSUME NEW d \in sweep.met
        PROVE  /\ stage'[d] \in {"live", "dying"}
               /\ sweep.n = 0 /\ stage'[d] = "live" => sweep.i <= Place(given[d])'
    <3>1. /\ d \in Ctx /\ stage[d] \in {"live", "dying"} /\ Place(given[d])' = Place(given[d])
          /\ sweep.n = 0 /\ stage[d] = "live" => sweep.i <= Place(given[d])
      BY <1>1, <1>2 DEF IInv, SweepInv, Place
    <3>2. CASE d = Holder(h)
      BY <1>2, <3>1, <3>2
    <3>3. CASE d # Holder(h)
      BY <1>2, <3>1, <3>3
    <3> QED
      BY <3>2, <3>3
  <2> QED
    BY <1>1, <2>1 DEF IInv, SweepInv
<1> QED
  BY <1>2, <1>3 DEF IInv

(* The last reference to a retired context is given back.                  *)
LEMMA ReleaseStep ==
    ASSUME IInv, NEW c \in Ctx, Release(c)
    PROVE  IInv'
<1>1. /\ stage[c] = "dying" /\ stage' = [stage EXCEPT ![c] = "free"]
      /\ sweep' = [sweep EXCEPT !.met = @ \ {c}]
      /\ UNCHANGED <<slot, index, handle, given, crash>>
  BY DEF Release
<1>2. stage \in [Ctx -> {"free", "new", "live", "dying"}]
  BY DEF IInv, TypeOK
<1>3. stage'[c] = "free" /\ \A d \in Ctx : d # c => stage'[d] = stage[d]
  BY <1>1, <1>2
<1>4. TypeOK'
  <2>1. stage' \in [Ctx -> {"free", "new", "live", "dying"}]
    BY <1>1, <1>2
  <2> QED
    BY <1>1, <2>1 DEF IInv, TypeOK
<1>5. \A d \in Ctx : stage'[d] \in InTable <=> stage[d] \in InTable
  BY <1>1, <1>3 DEF InTable
<1>6. TableOK(slot)'
  <2>1. \A p \in 1 .. Len(slot) : slot[p] # None => slot[p] \in Ctx
    BY DEF IInv, TableOK, Contents
  <2> QED
    BY <1>1, <1>5, <2>1 DEF IInv, TableOK
<1>7. Handled'
  BY <1>1, <1>3 DEF IInv, Handled, InTable
<1>8. Launching' = Launching
  BY <1>1, <1>3 DEF Launching
<1>9. SweepInv'
  <2>1. sweep \in [i : Nat, n : {0, 1}, met : SUBSET Ctx]
    BY DEF IInv, SweepInv
  <2>2. /\ sweep' \in [i : Nat, n : {0, 1}, met : SUBSET Ctx]
        /\ sweep'.i = sweep.i /\ sweep'.n = sweep.n /\ sweep'.met = sweep.met \ {c}
    BY <1>1, <2>1
  <2>3. \A d \in sweep.met \ {c} :
            d \in Ctx /\ stage'[d] = stage[d] /\ Place(given[d])' = Place(given[d])
    BY <1>1, <1>3, <2>1 DEF Place
  <2> QED
    BY <2>2, <2>3 DEF IInv, SweepInv
<1> QED
  BY <1>1, <1>4, <1>6, <1>7, <1>8, <1>9 DEF IInv, GrowAssert

-----------------------------------------------------------------------------
(* A pass of skynet_handle_retireall begins or ends.                       *)
LEMMA SweepBoundStep ==
    ASSUME IInv, SweepStart \/ SweepAgain \/ SweepReturn
    PROVE  IInv'
<1>1. UNCHANGED <<slot, index, handle, stage, given, crash>>
  BY DEF SweepStart, SweepAgain, SweepReturn
<1>2. TypeOK' /\ TableOK(slot)' /\ Handled' /\ IsFiniteSet(Launching)'
  BY <1>1, TableKept DEF IInv, TypeOK
<1>3. SweepInv'
  <2>1. CASE sweep' = [i |-> 1, n |-> 0, met |-> Live]
    <3>1. ASSUME NEW d \in Live PROVE stage'[d] = "live" /\ 1 <= Place(given[d])'
      <4>1. given[d] \in Nat /\ Len(slot) \in Nat \ {0} /\ stage[d] = "live"
        BY SizeAssumption DEF IInv, TypeOK, TableOK, SizeOK, Live
      <4>2. 1 + (given[d] % Len(slot)) \in 1 .. Len(slot)
        BY <4>1, PlaceType
      <4> QED
        BY <1>1, <4>1, <4>2 DEF Place
    <3>2. Live \in SUBSET Ctx
      BY DEF Live
    <3> QED
      BY <2>1, <3>1, <3>2 DEF SweepInv
  <2>2. CASE sweep' = Idle
    BY <2>2 DEF SweepInv, Idle
  <2> QED
    BY <2>1, <2>2 DEF SweepStart, SweepAgain, SweepReturn
<1> QED
  BY <1>1, <1>2, <1>3 DEF IInv, GrowAssert

(* The pass comes to a slot: what it leaves behind is not launched.        *)
LEMMA SweepSlotStep ==
    ASSUME IInv, SweepSlot
    PROVE  IInv'
<1> DEFINE c == slot[sweep.i]
           h == IF c = None THEN 0 ELSE handle[c]
<1>1. sweep \in [i : Nat, n : {0, 1}, met : SUBSET Ctx] /\ sweep.i \in 1 .. Len(slot)
  BY DEF IInv, SweepInv, SweepSlot, Size
<1>2. UNCHANGED <<index, handle, given, crash>>
  BY DEF SweepSlot
<1>3. CASE h # 0 /\ Holder(h) # None
  <2>1. Retired(h) /\ sweep' = [sweep EXCEPT !.i = @ + 1, !.n = 1]
    BY <1>3 DEF SweepSlot
  <2>2. h \in 1 .. HandleMask
    <3>1. c \in Ctx
      BY <1>1, <1>3 DEF IInv, TableOK, Contents
    <3> QED
      BY <1>3, <3>1, SizeAssumption DEF IInv, TypeOK
  <2> HIDE DEF h
  <2>3. /\ TypeOK' /\ TableOK(slot)' /\ Handled' /\ IsFiniteSet(Launching)' /\ GrowAssert'
        /\ Len(slot') = Len(slot) /\ stage'[Holder(h)] = "dying" /\ Holder(h) \in Ctx
        /\ \A d \in Ctx : d # Holder(h) => stage'[d] = stage[d]
    BY <1>2, <1>3, <2>1, <2>2, RetiredStep
  <2>4. /\ sweep' \in [i : Nat, n : {0, 1}, met : SUBSET Ctx]
        /\ sweep'.n = 1 /\ sweep'.met = sweep.met
    <3> DEFINE r == [sweep EXCEPT !.i = @ + 1]
    <3>1. r \in [i : Nat, n : {0, 1}, met : SUBSET Ctx] /\ r.met = sweep.met
      BY <1>1
    <3>2. sweep' = [r EXCEPT !.n = 1]
      BY <2>1
    <3> HIDE DEF r
    <3> QED
      BY <3>1, <3>2
  <2>5. \A d \in sweep.met : stage'[d] \in {"live", "dying"}
    <3> TAKE d \in sweep.met
    <3>1. d \in Ctx /\ stage[d] \in {"live", "dying"}
      BY <1>1 DEF IInv, SweepInv
    <3> QED
      BY <2>3, <3>1
  <2> QED
    BY <2>3, <2>4, <2>5 DEF IInv, SweepInv
<1>4. CASE ~(h # 0 /\ Holder(h) # None)
  <2>1. UNCHANGED <<slot, stage>> /\ sweep' = [sweep EXCEPT !.i = @ + 1]
    BY <1>4 DEF SweepSlot
  <2>2. TypeOK' /\ TableOK(slot)' /\ Handled' /\ IsFiniteSet(Launching)'
    BY <1>2, <2>1, TableKept DEF IInv, TypeOK
  <2>3. /\ sweep' \in [i : Nat, n : {0, 1}, met : SUBSET Ctx]
        /\ sweep'.i = sweep.i + 1 /\ sweep'.n = sweep.n /\ sweep'.met = sweep.met
    BY <1>1, <2>1
  <2>4. ASSUME NEW d \in sweep.met, sweep.n = 0, stage[d] = "live"
        PROVE  sweep.i + 1 <= Place(given[d])
    <3>1. /\ d \in Ctx /\ sweep.i <= Place(given[d]) /\ d # None
      BY <1>1, <2>4, NoneAssumption DEF IInv, SweepInv
    <3>2. /\ given[d] \in 1 .. HandleMask /\ handle[d] = given[d]
          /\ slot[Place(given[d])] = d
      BY <2>4, <3>1 DEF IInv, Handled, TableOK, InTable, Place
    <3>3. Place(given[d]) \in 1 .. Len(slot)
      BY <3>2, HolderIs
    <3>4. Place(given[d]) # sweep.i
      <4> SUFFICES ASSUME Place(given[d]) = sweep.i PROVE FALSE
        OBVIOUS
      <4>1. c = d /\ h = handle[d]
        BY <3>1, <3>2
      <4>2. Holder(handle[d]) = d
        BY <3>1, <3>2 DEF Holder, At, Size, Place
      <4> QED
        BY <1>4, <3>1, <3>2, <4>1, <4>2, SizeAssumption
    <3> QED
      BY <1>1, <3>1, <3>3, <3>4
  <2>5. ASSUME NEW d \in sweep'.met
        PROVE  /\ stage'[d] \in {"live", "dying"}
               /\ sweep'.n = 0 /\ stage'[d] = "live" => sweep'.i <= Place(given[d])'
    <3>1. stage[d] \in {"live", "dying"} /\ Place(given[d])' = Place(given[d])
      BY <1>2, <2>1, <2>3 DEF IInv, SweepInv, Place
    <3> QED
      BY <2>1, <2>3, <2>4, <3>1
  <2> QED
    BY <1>2, <2>2, <2>3, <2>5 DEF IInv, SweepInv, GrowAssert
<1> QED
  BY <1>3, <1>4

(* Names are none of the table's business.                                 *)
LEMMA NameHandleStep ==
    ASSUME IInv, NEW c \in Ctx, NEW n \in Name, NameHandle(c, n)
    PROVE  IInv'
<1>1. UNCHANGED <<slot, index, handle, stage, given, sweep, crash>>
  BY DEF NameHandle
<1> QED
  BY <1>1, TableKept DEF IInv, TypeOK, GrowAssert

-----------------------------------------------------------------------------
(* An empty table.                                                         *)
LEMMA InitIInv == Init => IInv
<1> SUFFICES ASSUME Init PROVE IInv
  OBVIOUS
<1>1. /\ slot = [p \in 1 .. SlotSize |-> None] /\ index = 1 /\ sweep = Idle /\ crash = None
      /\ handle = [c \in Ctx |-> 0] /\ given = [c \in Ctx |-> 0]
      /\ stage = [c \in Ctx |-> "free"]
  BY DEF Init
<1>2. /\ slot \in Seq(Contents) /\ Len(slot) = SlotSize
      /\ \A p \in 1 .. Len(slot) : slot[p] = None
  BY <1>1, SizeAssumption DEF Contents
<1>3. TypeOK
  BY <1>1, <1>2, SizeAssumption DEF TypeOK, Size, Contents
<1>4. TableOK(slot)
  BY <1>1, <1>2, SizeAssumption DEF TableOK, SizeOK, InTable
<1>5. Handled
  BY <1>1 DEF Handled, InTable
<1>6. Launching = {} /\ IsFiniteSet(Launching)
  BY <1>1, FS_EmptySet DEF Launching
<1>7. SweepInv
  BY <1>1 DEF SweepInv, Idle
<1> QED
  BY <1>1, <1>3, <1>4, <1>5, <1>6, <1>7, NoneAssumption DEF IInv, GrowAssert

(* One step per action.                                                    *)
LEMMA NextIInv == OneLaunch /\ IInv /\ [Next]_vars => IInv'
<1> SUFFICES ASSUME OneLaunch, IInv, [Next]_vars PROVE IInv'
  OBVIOUS
<1>1. ASSUME NEW c \in Ctx, Register(c) PROVE IInv'
  BY <1>1, RegisterStep
<1>2. ASSUME NEW c \in Ctx, RegisterGrow(c) PROVE IInv'
  BY <1>2, RegisterGrowStep
<1>3. ASSUME NEW c \in Ctx, RegisterCrash(c) PROVE IInv'
  BY <1>3, RegisterCrashStep
<1>4. ASSUME NEW c \in Ctx, Assign(c) PROVE IInv'
  BY <1>4, AssignStep
<1>5. ASSUME NEW c \in Ctx, Release(c) PROVE IInv'
  BY <1>5, ReleaseStep
<1>6. ASSUME NEW h \in 1 .. HandleMask, Retire(h) PROVE IInv'
  BY <1>6, RetireStep
<1>7. ASSUME NEW c \in Ctx, NEW n \in Name, NameHandle(c, n) PROVE IInv'
  BY <1>7, NameHandleStep
<1>8. CASE SweepStart \/ SweepAgain \/ SweepReturn
  BY <1>8, SweepBoundStep
<1>9. CASE SweepSlot
  BY <1>9, SweepSlotStep
<1>10. CASE UNCHANGED vars
  BY <1>10, TableKept DEF IInv, TypeOK, GrowAssert, vars
<1> QED
  BY <1>1, <1>2, <1>3, <1>4, <1>5, <1>6, <1>7, <1>8, <1>9, <1>10 DEF Next, Crashed

(* What is promised follows.                                               *)
LEMMA IInvImplies == IInv => HandlesOK /\ SweepComplete
<1> SUFFICES ASSUME IInv PROVE HandlesOK /\ SweepComplete
  OBVIOUS
<1>1. ASSUME NEW c \in Ctx, stage[c] = "live"
      PROVE  Holder(handle[c]) = c /\ handle[c] # 0 /\ Place(given[c]) \in 1 .. Len(slot)
  <2>1. /\ given[c] \in 1 .. HandleMask /\ handle[c] = given[c]
        /\ slot[Place(given[c])] = c
    BY <1>1 DEF IInv, Handled, TableOK, InTable, Place
  <2>2. Place(given[c]) \in 1 .. Len(slot)
    BY <2>1, HolderIs
  <2>3. c # None
    BY NoneAssumption
  <2> QED
    BY <2>1, <2>2, <2>3, SizeAssumption DEF Holder, At, Size, Place
<1>2. Findable
  BY <1>1 DEF Findable
<1>3. OwnHandle
  <2> SUFFICES ASSUME NEW c \in Live, NEW d \in Live \ {c}
               PROVE  handle[c] # 0 /\ handle[d] # handle[c]
    BY <1>1 DEF OwnHandle, Live
  <2>1. c \in Ctx /\ stage[c] = "live" /\ d \in Ctx /\ stage[d] = "live" /\ d # c
    BY DEF Live
  <2>2. Holder(handle[c]) = c /\ handle[c] # 0 /\ Holder(handle[d]) = d
    BY <1>1, <2>1
  <2> QED
    BY <2>1, <2>2
<1>4. SweepComplete
  <2> SUFFICES ASSUME SweepDone, NEW c \in sweep.met, stage[c] = "live" PROVE FALSE
    BY DEF SweepComplete
  <2>1. /\ sweep.i \in Nat /\ sweep.n = 0 /\ c \in Ctx /\ sweep.i <= Place(given[c])
        /\ sweep.i > Len(slot) /\ Len(slot) \in Nat
    BY DEF IInv, SweepInv, SweepDone, Size, TableOK, SizeOK
  <2>2. Place(given[c]) \in 1 .. Len(slot)
    BY <1>1, <2>1
  <2> QED
    BY <2>1, <2>2
<1> QED
  BY <1>2, <1>3, <1>4 DEF IInv, HandlesOK

-----------------------------------------------------------------------------
(* skynet_handle_register, skynet_handle_retire: when services are         *)
(* launched one at a time, a handle finds the service it was given to and  *)
(* no other, and the assertion that growth puts no two services in one     *)
(* slot holds, however often the table doubles and the handles come round. *)
THEOREM HandlesCorrect ==
    ASSUME OneLaunch
    PROVE  Spec => []HandlesOK
<1>1. Init => IInv
  BY InitIInv
<1>2. IInv /\ [Next]_vars => IInv'
  BY NextIInv
<1>3. IInv => HandlesOK
  BY IInvImplies
<1> QED
  BY <1>1, <1>2, <1>3, PTL DEF Spec

(* skynet_handle_retireall: when it returns, what was launched when its    *)
(* last pass began is retired, although the table may double and services  *)
(* come and go under the pass.                                             *)
THEOREM SweepCorrect ==
    ASSUME OneLaunch
    PROVE  Spec => []SweepComplete
<1>1. Init => IInv
  BY InitIInv
<1>2. IInv /\ [Next]_vars => IInv'
  BY NextIInv
<1>3. IInv => SweepComplete
  BY IInvImplies
<1> QED
  BY <1>1, <1>2, <1>3, PTL DEF Spec
=============================================================================
