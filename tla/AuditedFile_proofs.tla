------------------------- MODULE AuditedFile_proofs -------------------------
(***************************************************************************)
(* Proof that the ledger of module AuditedFile explains its file, for any  *)
(* contents and any number of rows.                                        *)
(***************************************************************************)
EXTENDS AuditedFile, FiniteSetTheorems, TLAPS

Rows == [status : {"applied", "rolled_back"}, old : Contents, new : Contents]

TypeInv ==
    /\ content \in Contents
    /\ ledger \in Seq(Rows)
    /\ torn \in BOOLEAN
    /\ belied \subseteq (DOMAIN ledger) \X {"applied", "rolled_back"}
    /\ IsFiniteSet(belied)

Inv == TypeInv /\ Balances

(* A ledger has finitely many rows. *)
LEMMA FiniteRows ==
    ASSUME TypeInv, NEW field, NEW c
    PROVE  IsFiniteSet(Applied(field, c)) /\ Cardinality(Applied(field, c)) \in Nat
<1>1. ledger \in Seq(Rows) /\ Len(ledger) \in Nat /\ DOMAIN ledger = 1 .. Len(ledger)
  BY DEF TypeInv
<1>2. IsFiniteSet(1 .. Len(ledger))
  BY <1>1, FS_Interval
<1>3. Applied(field, c) \subseteq 1 .. Len(ledger)
  BY <1>1 DEF Applied
<1> QED BY <1>2, <1>3, FS_Subset, FS_CardinalityType

(* Nor are more of them belied than finitely many.                          *)
LEMMA FiniteBelied ==
    ASSUME TypeInv, NEW c
    PROVE  /\ IsFiniteSet(BeliedFrom(c)) /\ Cardinality(BeliedFrom(c)) \in Nat
           /\ IsFiniteSet(BeliedTo(c)) /\ Cardinality(BeliedTo(c)) \in Nat
<1>1. BeliedFrom(c) \subseteq belied /\ BeliedTo(c) \subseteq belied
  BY DEF BeliedFrom, BeliedTo
<1> QED BY <1>1, FS_Subset, FS_CardinalityType DEF TypeInv

(* What a row says was replaced by what stays as it was written.            *)
RowsKept ==
    \A i \in DOMAIN ledger :
        i \in DOMAIN ledger' /\ ledger'[i].old = ledger[i].old /\ ledger'[i].new = ledger[i].new

(* No step rewrites a row but for its status.                               *)
LEMMA StepKeepsRows ==
    ASSUME TypeInv, [Next]_vars
    PROVE  RowsKept
<1>0. ledger \in Seq(Rows)
  BY DEF TypeInv
<1>1. ASSUME NEW new \in Contents, Write(new) PROVE RowsKept
  BY <1>0, <1>1 DEF Write, RowsKept
<1>2. ASSUME NEW i \in DOMAIN ledger, Rollback(i) PROVE RowsKept
  <2>1. ledger[i] \in Rows
    BY <1>0
  <2> QED BY <1>0, <1>2, <2>1 DEF Rollback, RowsKept, Rows
<1>3. CASE UNCHANGED ledger
  BY <1>3 DEF RowsKept
<1> QED BY <1>1, <1>2, <1>3 DEF Next, PutBack, Tear, vars

(* What a belied row said counts the same whatever becomes of the rows.     *)
LEMMA BeliedKept ==
    ASSUME TypeInv, RowsKept, belied' = belied, NEW c
    PROVE  BeliedFrom(c)' = BeliedFrom(c) /\ BeliedTo(c)' = BeliedTo(c)
<1>1. \A b \in belied : b[1] \in DOMAIN ledger
  BY DEF TypeInv
<1> QED BY <1>1 DEF RowsKept, BeliedFrom, BeliedTo, From, To

(* The steps keep the types.                                                *)
LEMMA TypeStep ==
    ASSUME TypeInv, [Next]_vars
    PROVE  TypeInv'
<1>1. ASSUME NEW new \in Contents, Write(new) PROVE TypeInv'
  <2>1. [status |-> "applied", old |-> content, new |-> new] \in Rows
    BY DEF TypeInv, Rows
  <2>2. DOMAIN ledger \subseteq DOMAIN ledger'
    BY <1>1 DEF Write, TypeInv
  <2> QED BY <1>1, <2>1, <2>2 DEF Write, TypeInv
<1>2. ASSUME NEW i \in DOMAIN ledger, Rollback(i) PROVE TypeInv'
  <2>1. ledger \in Seq(Rows) /\ ledger[i] \in Rows
    BY DEF TypeInv
  <2>2. ledger[i].old \in Contents /\ [ledger[i] EXCEPT !.status = "rolled_back"] \in Rows
    BY <2>1 DEF Rows
  <2>3. ledger' \in Seq(Rows)
    BY <1>2, <2>1, <2>2 DEF Rollback
  <2>4. DOMAIN ledger' = DOMAIN ledger
    BY <1>2 DEF Rollback
  <2> QED BY <1>2, <2>2, <2>3, <2>4 DEF Rollback, TypeInv
<1>3. ASSUME NEW i \in DOMAIN ledger, PutBack(i) PROVE TypeInv'
  <2>1. ledger \in Seq(Rows) /\ ledger[i] \in Rows
    BY DEF TypeInv
  <2>2. From(i, ledger[i].status) \in Contents /\ ledger[i].status \in {"applied", "rolled_back"}
    BY <2>1 DEF Rows, From
  <2>3. IsFiniteSet(belied \cup {<<i, ledger[i].status>>})
    BY FS_AddElement DEF TypeInv
  <2> QED BY <1>3, <2>2, <2>3 DEF PutBack, TypeInv
<1>4. CASE Tear
  BY <1>4 DEF Tear, TypeInv
<1>5. CASE UNCHANGED vars
  BY <1>5 DEF vars, TypeInv
<1> QED BY <1>1, <1>2, <1>3, <1>4, <1>5 DEF Next

(* A new row counts for the contents it names, one more for each.           *)
LEMMA WriteCounts ==
    ASSUME TypeInv, NEW new \in Contents, Write(new), NEW c \in Contents
    PROVE  /\ Cardinality(Applied("new", c)') = Cardinality(Applied("new", c)) + Is(new, c)
           /\ Cardinality(Applied("old", c)') = Cardinality(Applied("old", c)) + Is(content, c)
<1> DEFINE n == Len(ledger) + 1
<1>1. /\ ledger \in Seq(Rows) /\ Len(ledger) \in Nat
      /\ DOMAIN ledger = 1 .. Len(ledger)
      /\ DOMAIN ledger' = 1 .. n
      /\ \A i \in 1 .. Len(ledger) : ledger'[i] = ledger[i]
      /\ ledger'[n] = [status |-> "applied", old |-> content, new |-> new]
  BY DEF TypeInv, Write
<1>2. n \notin Applied("new", c) /\ n \notin Applied("old", c)
  BY <1>1 DEF Applied
<1>3. Applied("new", c)' = IF new = c THEN Applied("new", c) \cup {n} ELSE Applied("new", c)
  BY <1>1 DEF Applied
<1>4. Applied("old", c)' = IF content = c THEN Applied("old", c) \cup {n} ELSE Applied("old", c)
  BY <1>1 DEF Applied
<1> HIDE DEF n
<1>5. /\ IsFiniteSet(Applied("new", c)) /\ Cardinality(Applied("new", c)) \in Nat
      /\ IsFiniteSet(Applied("old", c)) /\ Cardinality(Applied("old", c)) \in Nat
  BY FiniteRows
<1> QED BY <1>2, <1>3, <1>4, <1>5, FS_AddElement DEF Is

(* A row that is rolled back no longer counts for the contents it names.    *)
LEMMA RollbackCounts ==
    ASSUME TypeInv, NEW i \in DOMAIN ledger, Rollback(i), NEW c \in Contents
    PROVE  /\ Cardinality(Applied("new", c)') = Cardinality(Applied("new", c)) - Is(content, c)
           /\ Cardinality(Applied("old", c)') = Cardinality(Applied("old", c)) - Is(content', c)
<1>1. /\ ledger \in Seq(Rows) /\ ledger[i] \in Rows
      /\ ledger[i].status = "applied" /\ ledger[i].new = content /\ ledger[i].old = content'
  BY DEF TypeInv, Rollback
<1>2. /\ DOMAIN ledger' = DOMAIN ledger
      /\ \A j \in DOMAIN ledger : j # i => ledger'[j] = ledger[j]
      /\ ledger'[i].status = "rolled_back"
  BY <1>1 DEF Rollback, Rows
<1>3. Applied("new", c)' = Applied("new", c) \ {i}
  BY <1>2 DEF Applied
<1>4. Applied("old", c)' = Applied("old", c) \ {i}
  BY <1>2 DEF Applied
<1>5. /\ i \in Applied("new", c) <=> content = c
      /\ i \in Applied("old", c) <=> content' = c
  BY <1>1 DEF Applied
<1>6. /\ IsFiniteSet(Applied("new", c)) /\ Cardinality(Applied("new", c)) \in Nat
      /\ IsFiniteSet(Applied("old", c)) /\ Cardinality(Applied("old", c)) \in Nat
  BY FiniteRows
<1> QED BY <1>3, <1>4, <1>5, <1>6, FS_RemoveElement DEF Is

(* A row that is belied counts for the contents between which the file went *)
(* back.                                                                    *)
LEMMA PutBackCounts ==
    ASSUME TypeInv, NEW i \in DOMAIN ledger, PutBack(i), NEW c \in Contents
    PROVE  /\ Cardinality(BeliedFrom(c)') = Cardinality(BeliedFrom(c)) + Is(content', c)
           /\ Cardinality(BeliedTo(c)') = Cardinality(BeliedTo(c)) + Is(content, c)
<1> DEFINE b == <<i, ledger[i].status>>
<1>1. /\ b \notin belied
      /\ content = To(b[1], b[2])
      /\ content' = From(b[1], b[2])
      /\ belied' = belied \cup {b}
      /\ UNCHANGED ledger
  BY DEF PutBack
<1> HIDE DEF b
<1>2. b \notin BeliedFrom(c) /\ b \notin BeliedTo(c)
  BY <1>1 DEF BeliedFrom, BeliedTo
<1>3. \A j, s : From(j, s)' = From(j, s) /\ To(j, s)' = To(j, s)
  BY <1>1 DEF From, To
<1>4. BeliedFrom(c)' = IF content' = c THEN BeliedFrom(c) \cup {b} ELSE BeliedFrom(c)
  BY <1>1, <1>3 DEF BeliedFrom
<1>5. BeliedTo(c)' = IF content = c THEN BeliedTo(c) \cup {b} ELSE BeliedTo(c)
  BY <1>1, <1>3 DEF BeliedTo
<1>6. /\ IsFiniteSet(BeliedFrom(c)) /\ Cardinality(BeliedFrom(c)) \in Nat
      /\ IsFiniteSet(BeliedTo(c)) /\ Cardinality(BeliedTo(c)) \in Nat
  BY FiniteBelied
<1>7. /\ Cardinality(BeliedFrom(c) \cup {b}) = Cardinality(BeliedFrom(c)) + 1
      /\ Cardinality(BeliedTo(c) \cup {b}) = Cardinality(BeliedTo(c)) + 1
  BY <1>2, <1>6, FS_AddElement
<1> QED BY <1>4, <1>5, <1>6, <1>7 DEF Is

(* The steps keep the balance.                                              *)
LEMMA BalanceStep ==
    ASSUME Inv, [Next]_vars
    PROVE  Balances'
<1> USE DEF Inv
<1>0. \A c \in Contents : /\ Cardinality(Applied("new", c)) \in Nat
                          /\ Cardinality(Applied("old", c)) \in Nat
                          /\ Cardinality(BeliedFrom(c)) \in Nat
                          /\ Cardinality(BeliedTo(c)) \in Nat
  BY FiniteRows, FiniteBelied
<1>1. ASSUME NEW c \in Contents, ~torn', ~torn
      PROVE  Is(Initial, c) + Cardinality(Applied("new", c)') + Cardinality(BeliedFrom(c)')
               = Is(content', c) + Cardinality(Applied("old", c)') + Cardinality(BeliedTo(c)')
  <2>1. Is(Initial, c) + Cardinality(Applied("new", c)) + Cardinality(BeliedFrom(c))
          = Is(content, c) + Cardinality(Applied("old", c)) + Cardinality(BeliedTo(c))
    BY <1>1 DEF Balances
  <2>2. \A x : Is(x, c) \in {0, 1}
    BY DEF Is
  <2>3. belied' = belied =>
          BeliedFrom(c)' = BeliedFrom(c) /\ BeliedTo(c)' = BeliedTo(c)
    BY StepKeepsRows, BeliedKept
  <2>4. ASSUME NEW new \in Contents, Write(new)
        PROVE  /\ content' = new /\ belied' = belied
               /\ Cardinality(Applied("new", c)') = Cardinality(Applied("new", c)) + Is(new, c)
               /\ Cardinality(Applied("old", c)') = Cardinality(Applied("old", c)) + Is(content, c)
    BY <2>4, WriteCounts DEF Write
  <2>5. ASSUME NEW i \in DOMAIN ledger, Rollback(i)
        PROVE  /\ belied' = belied
               /\ Cardinality(Applied("new", c)') = Cardinality(Applied("new", c)) - Is(content, c)
               /\ Cardinality(Applied("old", c)') = Cardinality(Applied("old", c)) - Is(content', c)
    BY <2>5, RollbackCounts DEF Rollback
  <2>6. ASSUME NEW i \in DOMAIN ledger, PutBack(i)
        PROVE  /\ Applied("new", c)' = Applied("new", c) /\ Applied("old", c)' = Applied("old", c)
               /\ Cardinality(BeliedFrom(c)') = Cardinality(BeliedFrom(c)) + Is(content', c)
               /\ Cardinality(BeliedTo(c)') = Cardinality(BeliedTo(c)) + Is(content, c)
    BY <2>6, PutBackCounts DEF PutBack, Applied
  <2>7. CASE UNCHANGED vars
    BY <2>1, <2>3, <2>7 DEF vars, Applied
  <2>8. CASE \E new \in Contents : Write(new)
    BY <1>0, <2>1, <2>2, <2>3, <2>4, <2>8
  <2>9. CASE \E i \in DOMAIN ledger : Rollback(i)
    BY <1>0, <2>1, <2>2, <2>3, <2>5, <2>9
  <2>10. CASE \E i \in DOMAIN ledger : PutBack(i)
    BY <1>0, <2>1, <2>2, <2>6, <2>10
  <2> QED BY <1>1, <2>7, <2>8, <2>9, <2>10 DEF Next, Tear
<1>2. torn => torn'
  BY DEF Next, Write, Rollback, PutBack, Tear, vars, TypeInv
<1> QED BY <1>1, <1>2 DEF Balances, Is

(* The ledger of an audited file explains what the file holds.              *)
THEOREM LedgerExplainsFile ==
    ASSUME Initial \in Contents
    PROVE  Spec => []Balances
<1>1. Init => Inv
  <2> SUFFICES ASSUME Init PROVE Inv
    OBVIOUS
  <2>1. TypeInv
    <3>1. ledger = <<>> /\ <<>> \in Seq(Rows)
      BY DEF Init
    <3> QED BY <3>1, FS_EmptySet DEF Init, TypeInv
  <2>2. \A c \in Contents : /\ Applied("new", c) = {} /\ Applied("old", c) = {}
                            /\ BeliedFrom(c) = {} /\ BeliedTo(c) = {}
    BY DEF Init, Applied, BeliedFrom, BeliedTo
  <2> QED BY <2>1, <2>2, FS_EmptySet DEF Init, Inv, Balances
<1>2. Inv /\ [Next]_vars => Inv'
  BY TypeStep, BalanceStep DEF Inv
<1>3. Inv => Balances
  BY DEF Inv
<1> QED BY <1>1, <1>2, <1>3, PTL DEF Spec
=============================================================================
