--------------------------- MODULE DepositProofs ----------------------------
(***************************************************************************)
(* The buyer's deposit.  DepositLock, for any number of trades at once,    *)
(* any prices, any deposit and any faults: what the unsynchronised entry   *)
(* of DepositLockMap is worth until two of the sections that touch it      *)
(* overlap.  The invariant splits the trades that hold the entry into the  *)
(* ones whose key is paid and the others, because a payment shrinks the    *)
(* deposit before the release shrinks the entry; what is not yet paid      *)
(* stays covered by the deposit (Covered).  AdminAuth, for any number of   *)
(* calls and any amounts: which open call the amount of the shared         *)
(* transactor belongs to has to be said (ValueOfOpen), and that a call     *)
(* that is alone is the only open one and still sees its own amount        *)
(* (AloneHolds).                                                           *)
(***************************************************************************)
EXTENDS DepositLock, AdminAuth, TLAPS

\* The trades that hold the entry: their key has been paid, or not.
Paid == {s \in Sessions : Holds(s) /\ key[s] = "mined"}
Unpaid == {s \in Sessions : Holds(s) /\ key[s] # "mined"}

\* The prices of the two parts add up.
Split == Total[Holding] = Total[Paid] + Total[Unpaid]

\* No two trades are in their sections.
Apart == ~raced => \A s, t \in Sessions : InSection(s) /\ InSection(t) => s = t

\* A += or -= in progress has loaded what the entry still is.
RegisterExact == ~raced => \A s \in Sessions : pc[s] \in {"store", "unstore"} => reg[s] = lock

\* A trade that has not submitted has no key; a key is pending only while its trade
\* waits, unless it was left.
KeyOfTrade ==
    \A s \in Sessions :
        /\ pc[s] \notin {"wait", "unload", "unstore", "ended"} => key[s] = "none"
        /\ key[s] = "pending" => pc[s] = "wait" \/ orphan

\* The deposit pays for all that hold the entry and are not paid.  What calcuDeposit
\* has read may be out of date by what was paid since and is not released yet.
Covered ==
    ~raced /\ ~orphan =>
        /\ Total[Unpaid] <= deposit
        /\ \A s \in Sessions :
                /\ pc[s] = "check" => snap[s] <= deposit + Total[Paid]
                /\ pc[s] \in {"load", "store"} => Price[s] + Total[Unpaid] <= deposit

\* The inductive invariant.
Inv == TypeOK /\ Split /\ Apart /\ LockExact /\ RegisterExact /\ KeyOfTrade /\ Covered

-----------------------------------------------------------------------------
\* A trade more adds its price to a total.
LEMMA TotalAdd ==
    ASSUME NEW T \in SUBSET Sessions, NEW s \in Sessions, s \notin T
    PROVE  Total[T \cup {s}] = Total[T] + Price[s]
BY TotalAssumption

\* A trade less takes it away.
LEMMA TotalRemove ==
    ASSUME NEW T \in SUBSET Sessions, NEW s \in Sessions, s \in T
    PROVE  Total[T] = Total[T \ {s}] + Price[s]
<1>1. T = (T \ {s}) \cup {s} /\ T \ {s} \in SUBSET Sessions
  OBVIOUS
<1> QED BY <1>1, TotalAdd

\* Totals are natural numbers.
LEMMA Totals ==
    /\ Total[Holding] \in Nat /\ Total[Paid] \in Nat /\ Total[Unpaid] \in Nat
    /\ Holding \in SUBSET Sessions /\ Paid \in SUBSET Sessions /\ Unpaid \in SUBSET Sessions
    /\ \A s \in Sessions : Price[s] \in Nat
<1>1. Holding \in SUBSET Sessions /\ Paid \in SUBSET Sessions /\ Unpaid \in SUBSET Sessions
  BY DEF Holding, Paid, Unpaid
<1> QED BY <1>1, TotalAssumption, PriceAssumption

\* The same in the next state.
LEMMA TotalsNext ==
    /\ Total[Holding'] \in Nat /\ Total[Paid'] \in Nat /\ Total[Unpaid'] \in Nat
    /\ Holding' \in SUBSET Sessions /\ Paid' \in SUBSET Sessions /\ Unpaid' \in SUBSET Sessions
<1>1. Holding' \in SUBSET Sessions /\ Paid' \in SUBSET Sessions /\ Unpaid' \in SUBSET Sessions
  BY DEF Holding, Paid, Unpaid
<1> QED BY <1>1, TotalAssumption

\* The initial states satisfy the invariant.
LEMMA InitInv == Init => Inv
<1> SUFFICES ASSUME Init PROVE Inv
  OBVIOUS
<1>1. Holding = {} /\ Paid = {} /\ Unpaid = {}
  BY DEF Init, Holding, Paid, Unpaid, Holds
<1>2. Total[{}] = 0
  BY TotalAssumption
<1>3. TypeOK
  <2>1. 0 \in 0..MaxDeposit /\ 0 \in 0..MaxFaults
    BY BoundsAssumption
  <2>2. snap \in [Sessions -> 0..MaxDeposit] /\ reg \in [Sessions -> Int]
    BY <2>1 DEF Init
  <2>3. pc \in [Sessions -> PCs] /\ key \in [Sessions -> {"none", "pending", "mined", "reverted"}]
    BY DEF Init, PCs
  <2>4. lock \in Int /\ deposit \in 0..MaxDeposit
    BY DEF Init
  <2>5. raced \in BOOLEAN /\ orphan \in BOOLEAN
    BY Zenon DEF Init
  <2>6. faults \in 0..MaxFaults
    BY <2>1 DEF Init
  <2> QED BY <2>2, <2>3, <2>4, <2>5, <2>6 DEF TypeOK
<1>4. Split /\ LockExact
  BY <1>1, <1>2 DEF Init, Split, LockExact
<1>5. Apart /\ RegisterExact /\ KeyOfTrade
  BY DEF Init, Apart, RegisterExact, KeyOfTrade, InSection
<1>6. Covered
  BY <1>1, <1>2, BoundsAssumption DEF Init, Covered
<1> QED BY <1>3, <1>4, <1>5, <1>6 DEF Inv

-----------------------------------------------------------------------------
(***************************************************************************)
(* The steps of a trade.                                                   *)
(***************************************************************************)
\* The types.
LEMMA TypeStep == ASSUME Inv, [Next]_vars PROVE TypeOK'
<1> USE PriceAssumption, BoundsAssumption DEF Inv, TypeOK, PCs, Goto, history
<1>1. ASSUME NEW s \in Sessions, Accept(s) \/ Submit(s) \/ Abandon(s) \/ Settled(s) PROVE TypeOK'
  BY <1>1 DEF Accept, Submit, Abandon, Settled
<1>2. ASSUME NEW s \in Sessions, ReadDeposit(s) PROVE TypeOK'
  BY <1>2 DEF ReadDeposit, EnterSection
<1>3. ASSUME NEW s \in Sessions, CheckLock(s) PROVE TypeOK'
  BY <1>3 DEF CheckLock
<1>4. ASSUME NEW s \in Sessions, LoadLock(s) PROVE TypeOK'
  BY <1>4 DEF LoadLock
<1>5. ASSUME NEW s \in Sessions, StoreLock(s) PROVE TypeOK'
  BY <1>5 DEF StoreLock
<1>6. ASSUME NEW s \in Sessions, GiveUp(s) PROVE TypeOK'
  BY <1>6 DEF GiveUp
<1>7. ASSUME NEW s \in Sessions, UnloadLock(s) PROVE TypeOK'
  BY <1>7 DEF UnloadLock, EnterSection
<1>8. ASSUME NEW s \in Sessions, UnstoreLock(s) PROVE TypeOK'
  BY <1>8 DEF UnstoreLock
<1>9. ASSUME NEW s \in Sessions, Mine(s) PROVE TypeOK'
  BY <1>9 DEF Mine
<1>10. ASSUME Crash PROVE TypeOK'
  <2>1. 0 \in 0..MaxDeposit /\ faults' \in 0..MaxFaults
    BY <1>10 DEF Crash
  <2>2. snap' \in [Sessions -> 0..MaxDeposit] /\ reg' \in [Sessions -> Int]
    BY <1>10, <2>1 DEF Crash
  <2>3. pc' \in [Sessions -> PCs] /\ raced' \in BOOLEAN /\ orphan' \in BOOLEAN
    BY <1>10 DEF Crash
  <2> QED BY <1>10, <2>1, <2>2, <2>3 DEF Crash
<1>11. ASSUME BobDeposit PROVE TypeOK'
  BY <1>11 DEF BobDeposit
<1>12. CASE UNCHANGED vars
  BY <1>12 DEF vars
<1> QED
  BY <1>1, <1>2, <1>3, <1>4, <1>5, <1>6, <1>7, <1>8, <1>9, <1>10, <1>11, <1>12 DEF Next, Serve

\* The sections stay apart until the overlap is recorded.
LEMMA ApartStep == ASSUME Inv, [Next]_vars PROVE Apart'
<1> USE DEF Inv, TypeOK, PCs, Goto, history, Apart, InSection
<1>1. ASSUME NEW s \in Sessions, ReadDeposit(s) \/ UnloadLock(s) PROVE Apart'
  BY <1>1 DEF ReadDeposit, UnloadLock, EnterSection
<1>2. ASSUME NEW s \in Sessions,
             \/ Accept(s) \/ CheckLock(s) \/ LoadLock(s) \/ StoreLock(s) \/ Submit(s)
             \/ Abandon(s) \/ Settled(s) \/ GiveUp(s) \/ UnstoreLock(s) \/ Mine(s)
      PROVE  Apart'
  BY <1>2 DEF Accept, CheckLock, LoadLock, StoreLock, Submit, Abandon, Settled, GiveUp, UnstoreLock, Mine
<1>3. CASE Crash
  BY <1>3 DEF Crash, Active
<1>4. CASE BobDeposit \/ UNCHANGED vars
  BY <1>4 DEF BobDeposit, vars
<1> QED BY <1>1, <1>2, <1>3, <1>4 DEF Next, Serve

\* Keys come from submissions and are left only by GiveUp and Crash.
LEMMA KeyStep == ASSUME Inv, [Next]_vars PROVE KeyOfTrade'
<1> USE DEF Inv, TypeOK, PCs, Goto, history, KeyOfTrade
<1>1. ASSUME NEW s \in Sessions,
             \/ Accept(s) \/ ReadDeposit(s) \/ CheckLock(s) \/ LoadLock(s) \/ StoreLock(s)
             \/ Submit(s) \/ Abandon(s) \/ Settled(s)
      PROVE  KeyOfTrade'
  BY <1>1 DEF Accept, ReadDeposit, CheckLock, LoadLock, StoreLock, Submit, Abandon, Settled
<1>2. ASSUME NEW s \in Sessions, GiveUp(s) \/ UnloadLock(s) \/ UnstoreLock(s) \/ Mine(s)
      PROVE  KeyOfTrade'
  BY <1>2 DEF GiveUp, UnloadLock, UnstoreLock, Mine
<1>3. CASE Crash
  BY <1>3 DEF Crash, Active
<1>4. CASE BobDeposit \/ UNCHANGED vars
  BY <1>4 DEF BobDeposit, vars
<1> QED BY <1>1, <1>2, <1>3, <1>4 DEF Next, Serve

-----------------------------------------------------------------------------
\* What is left to show of a step.
Money == Split /\ LockExact /\ RegisterExact /\ Covered

\* A step that moves neither the deposit nor the entry nor who holds it.
LEMMA SameHolders ==
    ASSUME Inv, NEW s \in Sessions,
           \/ Accept(s) \/ ReadDeposit(s) \/ CheckLock(s) \/ LoadLock(s) \/ Submit(s)
           \/ Abandon(s) \/ Settled(s) \/ GiveUp(s) \/ UnloadLock(s)
    PROVE  /\ Holding' = Holding /\ Paid' = Paid /\ Unpaid' = Unpaid
           /\ lock' = lock /\ deposit' = deposit
           /\ \A t \in Sessions : t # s => pc'[t] = pc[t] /\ snap'[t] = snap[t] /\ reg'[t] = reg[t]
           /\ (~raced' => ~raced) /\ (~orphan' => ~orphan)
<1>1. /\ lock' = lock /\ deposit' = deposit
      /\ \A t \in Sessions : t # s => pc'[t] = pc[t] /\ snap'[t] = snap[t] /\ reg'[t] = reg[t]
      /\ (~raced' => ~raced) /\ (~orphan' => ~orphan)
  BY DEF Inv, TypeOK, Accept, ReadDeposit, CheckLock, LoadLock, Submit, Abandon, Settled, GiveUp,
         UnloadLock, EnterSection, Goto, history
<1>2. \A t \in Sessions : (Holds(t)' <=> Holds(t)) /\ (key'[t] = "mined" <=> key[t] = "mined")
  BY DEF Inv, TypeOK, KeyOfTrade, Accept, ReadDeposit, CheckLock, LoadLock, Submit, Abandon, Settled,
         GiveUp, UnloadLock, Goto, Holds
<1>3. Holding' = Holding /\ Paid' = Paid /\ Unpaid' = Unpaid
  BY <1>2 DEF Holding, Paid, Unpaid
<1> QED BY <1>1, <1>3

\* Such a step keeps the money in order: the comparison leaves room for the price.
LEMMA QuietStep ==
    ASSUME Inv, NEW s \in Sessions,
           \/ Accept(s) \/ ReadDeposit(s) \/ CheckLock(s) \/ LoadLock(s) \/ Submit(s)
           \/ Abandon(s) \/ Settled(s) \/ GiveUp(s) \/ UnloadLock(s)
    PROVE  Money'
<1>1. /\ Holding' = Holding /\ Paid' = Paid /\ Unpaid' = Unpaid
      /\ lock' = lock /\ deposit' = deposit
      /\ \A t \in Sessions : t # s => pc'[t] = pc[t] /\ snap'[t] = snap[t] /\ reg'[t] = reg[t]
      /\ (~raced' => ~raced) /\ (~orphan' => ~orphan)
  BY SameHolders
<1>2. Split' /\ LockExact'
  BY <1>1 DEF Inv, Split, LockExact
<1>3. pc'[s] \in {"store", "unstore"} => reg'[s] = lock
  BY DEF Inv, TypeOK, Accept, ReadDeposit, CheckLock, LoadLock, Submit, Abandon, Settled, GiveUp,
         UnloadLock, Goto, PCs
<1>4. RegisterExact'
  BY <1>1, <1>3 DEF Inv, RegisterExact
<1>5. ASSUME ~raced, ~orphan
      PROVE  /\ pc'[s] = "check" => snap'[s] <= deposit + Total[Paid]
             /\ pc'[s] \in {"load", "store"} => Price[s] + Total[Unpaid] <= deposit
  <2>1. /\ Total[Unpaid] <= deposit /\ lock = Total[Paid] + Total[Unpaid]
        /\ pc[s] = "check" => snap[s] <= deposit + Total[Paid]
        /\ pc[s] \in {"load", "store"} => Price[s] + Total[Unpaid] <= deposit
        /\ deposit \in Nat /\ snap[s] \in Nat
    BY <1>5, BoundsAssumption DEF Inv, TypeOK, Covered, LockExact, Split
  <2>2. CASE ReadDeposit(s)
    BY <2>1, <2>2, Totals DEF ReadDeposit, Inv, TypeOK, Goto
  <2>3. CASE CheckLock(s)
    BY <2>1, <2>3, Totals DEF CheckLock, Inv, TypeOK, Goto
  <2>4. CASE LoadLock(s)
    BY <2>1, <2>4 DEF LoadLock, Inv, TypeOK, Goto
  <2>5. CASE Accept(s) \/ Submit(s) \/ Abandon(s) \/ Settled(s) \/ GiveUp(s) \/ UnloadLock(s)
    BY <2>5 DEF Accept, Submit, Abandon, Settled, GiveUp, UnloadLock, Inv, TypeOK, Goto
  <2> QED BY <2>2, <2>3, <2>4, <2>5
<1>6. Covered'
  BY <1>1, <1>5 DEF Inv, Covered
<1> QED BY <1>2, <1>4, <1>6 DEF Money

\* StoreLock: the trade begins to hold the entry, unpaid.
LEMMA StoreStep == ASSUME Inv, NEW s \in Sessions, StoreLock(s) PROVE Money'
<1>1. /\ lock' = reg[s] + Price[s] /\ deposit' = deposit /\ UNCHANGED <<raced, orphan, key, snap>>
      /\ pc[s] = "store" /\ pc'[s] = "held" /\ key[s] = "none"
      /\ \A t \in Sessions : t # s => pc'[t] = pc[t] /\ reg'[t] = reg[t]
  BY DEF StoreLock, Goto, history, Inv, TypeOK, KeyOfTrade
<1>2. /\ s \notin Holding /\ Holding' = Holding \cup {s}
      /\ s \notin Unpaid /\ Unpaid' = Unpaid \cup {s} /\ Paid' = Paid
  BY <1>1 DEF Holding, Unpaid, Paid, Holds
<1>3. Total[Holding'] = Total[Holding] + Price[s] /\ Total[Unpaid'] = Total[Unpaid] + Price[s]
  BY <1>2, TotalAdd, Totals
<1>4. Split'
  BY <1>2, <1>3, Totals DEF Inv, Split
<1>5. LockExact'
  BY <1>1, <1>3 DEF Inv, LockExact, RegisterExact
<1>6. RegisterExact'
  BY <1>1 DEF Inv, RegisterExact, Apart, InSection
<1>7. Covered'
  <2> SUFFICES ASSUME ~raced, ~orphan
               PROVE  /\ Total[Unpaid'] <= deposit
                      /\ \A t \in Sessions :
                            /\ pc'[t] = "check" => snap[t] <= deposit + Total[Paid]
                            /\ pc'[t] \in {"load", "store"} => Price[t] + Total[Unpaid'] <= deposit
    BY <1>1, <1>2 DEF Covered
  <2>1. \A t \in Sessions : t # s => ~InSection(t)
    BY <1>1 DEF Inv, Apart, InSection
  <2>2. \A t \in Sessions : pc'[t] \notin {"check", "load", "store"}
    BY <1>1, <2>1 DEF InSection
  <2>3. Price[s] + Total[Unpaid] <= deposit /\ deposit \in Nat
    BY <1>1, BoundsAssumption DEF Inv, Covered, TypeOK
  <2> QED BY <1>3, <2>2, <2>3, Totals
<1> QED BY <1>4, <1>5, <1>6, <1>7 DEF Money

\* UnstoreLock: the trade holds the entry no more, and no comparison is under way.
LEMMA UnstoreStep == ASSUME Inv, NEW s \in Sessions, UnstoreLock(s) PROVE Money'
<1>1. /\ lock' = reg[s] - Price[s] /\ deposit' = deposit /\ UNCHANGED <<raced, orphan, key, snap>>
      /\ pc[s] = "unstore" /\ pc'[s] = "ended"
      /\ \A t \in Sessions : t # s => pc'[t] = pc[t] /\ reg'[t] = reg[t]
  BY DEF UnstoreLock, Goto, history, Inv, TypeOK
<1>2. s \in Holding /\ Holding' = Holding \ {s} /\ Paid' = Paid \ {s} /\ Unpaid' = Unpaid \ {s}
  BY <1>1 DEF Holding, Unpaid, Paid, Holds
<1>3. (s \in Paid /\ s \notin Unpaid) \/ (s \notin Paid /\ s \in Unpaid)
  BY <1>2 DEF Holding, Unpaid, Paid
<1>4. Total[Holding] = Total[Holding'] + Price[s]
  BY <1>2, TotalRemove, Totals
<1>5. \/ Total[Paid] = Total[Paid'] + Price[s] /\ Unpaid' = Unpaid
      \/ Total[Unpaid] = Total[Unpaid'] + Price[s] /\ Paid' = Paid
  <2>1. CASE s \in Paid /\ s \notin Unpaid
    BY <1>2, <2>1, TotalRemove, Totals
  <2>2. CASE s \notin Paid /\ s \in Unpaid
    BY <1>2, <2>2, TotalRemove, Totals
  <2> QED BY <1>3, <2>1, <2>2
<1>6. Split'
  BY <1>4, <1>5, Totals, TotalsNext DEF Inv, Split
<1>7. LockExact'
  BY <1>1, <1>4, Totals, TotalsNext DEF Inv, LockExact, RegisterExact
<1>8. RegisterExact'
  BY <1>1 DEF Inv, RegisterExact, Apart, InSection
<1>9. Covered'
  <2> SUFFICES ASSUME ~raced, ~orphan
               PROVE  /\ Total[Unpaid'] <= deposit
                      /\ \A t \in Sessions : pc'[t] \notin {"check", "load", "store"}
    BY <1>1 DEF Covered
  <2>1. \A t \in Sessions : t # s => ~InSection(t)
    BY <1>1 DEF Inv, Apart, InSection
  <2>2. \A t \in Sessions : pc'[t] \notin {"check", "load", "store"}
    BY <1>1, <2>1 DEF InSection
  <2>3. Total[Unpaid] <= deposit /\ deposit \in Nat
    BY BoundsAssumption DEF Inv, Covered, TypeOK
  <2> QED BY <1>5, <2>2, <2>3, Totals, TotalsNext
<1> QED BY <1>6, <1>7, <1>8, <1>9 DEF Money

\* A key that is waited for is covered: the contract does not refuse it.
LEMMA PendingCovered ==
    ASSUME Inv, NEW s \in Sessions, key[s] = "pending", ~raced, ~orphan
    PROVE  Price[s] <= deposit /\ s \in Unpaid
<1>1. s \in Unpaid
  BY DEF Inv, KeyOfTrade, Unpaid, Holds
<1>2. Total[Unpaid] = Total[Unpaid \ {s}] + Price[s]
  BY <1>1, TotalRemove, Totals
<1>3. Total[Unpaid \ {s}] \in Nat
  BY Totals, TotalAssumption
<1>4. Total[Unpaid] <= deposit /\ deposit \in Nat
  BY BoundsAssumption DEF Inv, Covered, TypeOK
<1> QED BY <1>1, <1>2, <1>3, <1>4, Totals

\* Mine: what is paid leaves the deposit and the unpaid part together.
LEMMA MineStep == ASSUME Inv, NEW s \in Sessions, Mine(s) PROVE Money'
<1>1. UNCHANGED <<pc, lock, snap, reg, raced, orphan>> /\ key[s] = "pending"
  BY DEF Mine, history
<1>2. Holding' = Holding
  BY <1>1 DEF Holding, Holds
<1>3. LockExact' /\ RegisterExact'
  BY <1>1, <1>2 DEF Inv, LockExact, RegisterExact
<1>4. CASE Price[s] <= deposit /\ key' = [key EXCEPT ![s] = "mined"] /\ deposit' = deposit - Price[s]
  <2>1. CASE Holds(s)
    <3>1. s \in Unpaid /\ s \notin Paid /\ Unpaid' = Unpaid \ {s} /\ Paid' = Paid \cup {s}
      BY <1>1, <1>4, <2>1 DEF Inv, TypeOK, Unpaid, Paid, Holds
    <3>2. Total[Unpaid] = Total[Unpaid'] + Price[s] /\ Total[Paid'] = Total[Paid] + Price[s]
      BY <3>1, TotalAdd, TotalRemove, Totals
    <3>3. Split'
      BY <1>2, <3>2, Totals, TotalsNext DEF Inv, Split
    <3>4. deposit \in Nat /\ \A t \in Sessions : snap[t] \in Nat
      BY BoundsAssumption DEF Inv, TypeOK
    <3>5. Covered'
      BY <1>1, <1>4, <3>2, <3>4, Totals, TotalsNext DEF Inv, Covered
    <3> QED BY <1>3, <3>3, <3>5 DEF Money
  <2>2. CASE ~Holds(s)
    <3>1. Unpaid' = Unpaid /\ Paid' = Paid
      BY <1>1, <1>4, <2>2 DEF Inv, TypeOK, Unpaid, Paid, Holds
    <3>2. orphan
      BY <1>1, <2>2 DEF Inv, KeyOfTrade, Holds
    <3> QED BY <1>1, <1>2, <1>3, <3>1, <3>2 DEF Inv, Money, Split, Covered
  <2> QED BY <2>1, <2>2
<1>5. CASE ~(Price[s] <= deposit) /\ key' = [key EXCEPT ![s] = "reverted"] /\ deposit' = deposit
  <2>1. Unpaid' = Unpaid /\ Paid' = Paid
    BY <1>1, <1>5 DEF Inv, TypeOK, Unpaid, Paid, Holds
  <2>2. raced \/ orphan
    BY <1>1, <1>5, PendingCovered
  <2> QED BY <1>1, <1>2, <1>3, <2>1, <2>2 DEF Inv, Money, Split, Covered
<1> QED BY <1>4, <1>5 DEF Mine

\* Crash: nobody holds anything; a key that is still pending is an orphan.
LEMMA CrashStep == ASSUME Inv, Crash PROVE Money'
<1>1. /\ \A t \in Sessions : pc'[t] \in {"idle", "ended"}
      /\ lock' = 0 /\ deposit' = deposit /\ raced' = FALSE
  BY DEF Crash, Active, Inv, TypeOK
<1>2. Holding' = {} /\ Paid' = {} /\ Unpaid' = {}
  BY <1>1 DEF Holding, Paid, Unpaid, Holds
<1>3. Total[{}] = 0 /\ deposit \in Nat
  BY TotalAssumption, BoundsAssumption DEF Inv, TypeOK
<1>4. Split' /\ LockExact'
  BY <1>1, <1>2, <1>3 DEF Split, LockExact
<1>5. RegisterExact' /\ Covered'
  BY <1>1, <1>2, <1>3 DEF RegisterExact, Covered
<1> QED BY <1>4, <1>5 DEF Money

\* BobDeposit: more deposit covers what less did.
LEMMA DepositStep == ASSUME Inv, BobDeposit PROVE Money'
<1>1. UNCHANGED <<pc, lock, snap, reg, key, raced, orphan>> /\ deposit' \in Nat /\ deposit <= deposit'
  BY BoundsAssumption DEF BobDeposit, Inv, TypeOK, history
<1>2. Holding' = Holding /\ Paid' = Paid /\ Unpaid' = Unpaid
  BY <1>1 DEF Holding, Paid, Unpaid, Holds
<1>3. Split' /\ LockExact' /\ RegisterExact'
  BY <1>1, <1>2 DEF Inv, Split, LockExact, RegisterExact
<1>4. deposit \in Nat /\ \A t \in Sessions : snap[t] \in Nat
  BY BoundsAssumption DEF Inv, TypeOK
<1>5. Covered'
  BY <1>1, <1>2, <1>4, Totals DEF Inv, Covered
<1> QED BY <1>3, <1>5 DEF Money

\* Every step keeps the invariant.
LEMMA NextInv == ASSUME Inv, [Next]_vars PROVE Inv'
<1>1. CASE UNCHANGED vars
  <2>1. Money'
    BY <1>1 DEF Inv, Money, Split, LockExact, RegisterExact, Covered, Holding, Paid, Unpaid, Holds, vars
  <2> QED BY <2>1, TypeStep, ApartStep, KeyStep DEF Inv, Money
<1>2. CASE Next
  <2>1. Money'
    BY <1>2, QuietStep, StoreStep, UnstoreStep, MineStep, CrashStep, DepositStep DEF Next, Serve
  <2> QED BY <1>2, <2>1, TypeStep, ApartStep, KeyStep DEF Inv, Money
<1> QED BY <1>1, <1>2

-----------------------------------------------------------------------------
\* The invariant holds in every reachable state, whatever number of trades runs at once.
THEOREM Invariance == Spec => []Inv
<1>1. Inv /\ [Next]_vars => Inv'
  BY NextInv
<1> QED BY <1>1, InitInv, PTL DEF Spec

\* The variables keep their types under every interleaving; the entry is an integer
\* and not a natural number, since overlapping releases may take it below zero.
THEOREM TypeCorrect == Spec => []TypeOK
<1>1. Inv => TypeOK
  BY DEF Inv
<1> QED BY <1>1, Invariance, PTL

\* calcuDeposit and the deferred release: until two of their sections have overlapped,
\* the entry is the sum of what the trades in flight hold, for any number of them.
THEOREM LockIsExact == Spec => []LockExact
<1>1. Inv => LockExact
  BY DEF Inv
<1> QED BY <1>1, Invariance, PTL

\* Any number of trades at once: the contract refuses a key that submitScrtFor.. has
\* sent only after sections have overlapped, or after a key was left pending by a
\* restart or by the end of a wait.
THEOREM KeysArePaid == Spec => RefusedWhy
<1> DEFINE A == \A s \in Sessions : key'[s] = "reverted" /\ key[s] # "reverted" => raced \/ orphan
<1>1. Inv /\ [Next]_vars => [A]_vars
  <2> SUFFICES ASSUME Inv, Next PROVE A
    OBVIOUS
  <2>1. ASSUME NEW s \in Sessions, Mine(s) PROVE A
    <3> SUFFICES ASSUME NEW t \in Sessions, key'[t] = "reverted", key[t] # "reverted", ~raced, ~orphan
                 PROVE  FALSE
      OBVIOUS
    <3>1. t = s /\ key[s] = "pending" /\ ~(Price[s] <= deposit)
      BY <2>1 DEF Mine, Inv, TypeOK
    <3> QED BY <3>1, PendingCovered
  <2>2. ASSUME NEW s \in Sessions, Serve(s) PROVE A
    BY <2>2 DEF Serve, Accept, ReadDeposit, CheckLock, LoadLock, StoreLock, Submit, Abandon, Settled,
                GiveUp, UnloadLock, UnstoreLock, Inv, TypeOK
  <2>3. CASE Crash \/ BobDeposit
    BY <2>3 DEF Crash, BobDeposit
  <2> QED BY <2>1, <2>2, <2>3 DEF Next
<1> QED BY <1>1, Invariance, PTL DEF Spec, RefusedWhy

-----------------------------------------------------------------------------
(***************************************************************************)
(* The amounts sent to the contract.                                       *)
(***************************************************************************)
\* The amount in the field is that of an open call.
ValueOfOpen == Value # 0 => \E c \in Open : Value = call[c].asked

\* A call that is open and alone finds its amount.
AloneHolds == \A c \in Open : alone[c] => Open = {c} /\ Value = call[c].asked

\* The calls that take no ether were asked to send none, and reset nothing.
FreeIsZero == \A c \in Calls : call[c].fun \notin Payable => call[c].asked = 0 /\ step[c] # "reset"

AuthInv == AuthTypeOK /\ ValueOfOpen /\ AloneHolds /\ FreeIsZero /\ AloneIsExact

\* No call is open in the beginning.
LEMMA AuthInitInv == AuthInit => AuthInv
BY DEF AuthInit, AuthInv, AuthTypeOK, ValueOfOpen, AloneHolds, FreeIsZero, AloneIsExact, Open, NoCall, Payable, Free

\* A call that sets the amount is the last one to do so; those that were open are no
\* longer alone.
LEMMA PayInv == ASSUME AuthInv, NEW c \in Calls, Pay(c) PROVE AuthInv'
<1>1. PICK f \in Payable, a \in Amounts : /\ call' = [call EXCEPT ![c] = [fun |-> f, asked |-> a]]
                                         /\ Value' = a
  BY DEF Pay, Amount
<1>2. c \notin Open /\ Open' = Open \cup {c}
  BY <1>1 DEF AuthInv, AuthTypeOK, Pay, Open
<1>3. AuthTypeOK'
  BY <1>1 DEF AuthInv, AuthTypeOK, Pay
<1>4. call'[c].asked = a /\ c \in Open'
  BY <1>1, <1>2 DEF AuthInv, AuthTypeOK
<1>5. ValueOfOpen'
  BY <1>1, <1>4 DEF ValueOfOpen
<1>6. AloneHolds'
  <2> SUFFICES ASSUME NEW d \in Open', alone'[d] PROVE Open' = {d} /\ Value' = call'[d].asked
    BY DEF AloneHolds
  <2>1. d = c /\ Open = {}
    BY <1>2 DEF Pay, Open
  <2> QED BY <2>1, <1>1, <1>2, <1>4
<1>7. FreeIsZero'
  BY <1>1 DEF AuthInv, AuthTypeOK, FreeIsZero, Pay
<1>8. AloneIsExact'
  BY DEF AuthInv, AloneIsExact, Pay
<1> QED BY <1>3, <1>5, <1>6, <1>7, <1>8 DEF AuthInv

\* A call that takes no ether opens nothing.
LEMMA UseInv == ASSUME AuthInv, NEW c \in Calls, Use(c) PROVE AuthInv'
<1>1. PICK f \in Free : call' = [call EXCEPT ![c] = [fun |-> f, asked |-> 0]]
  BY DEF Use
<1>2. f \notin Payable
  BY DEF Free, Payable
<1>3. c \notin Open /\ Open' = Open
  BY <1>1, <1>2 DEF AuthInv, AuthTypeOK, Use, Open
<1>4. AuthTypeOK'
  BY <1>1 DEF AuthInv, AuthTypeOK, Use
<1>5. \A d \in Open : call'[d] = call[d] /\ alone'[d] = alone[d]
  BY <1>1, <1>3 DEF AuthInv, AuthTypeOK, Use, Open
<1>6. ValueOfOpen' /\ AloneHolds'
  BY <1>3, <1>5 DEF AuthInv, ValueOfOpen, AloneHolds, Use
<1>7. FreeIsZero'
  BY <1>1 DEF AuthInv, AuthTypeOK, FreeIsZero, Use
<1>8. AloneIsExact'
  BY DEF AuthInv, AloneIsExact, Use
<1> QED BY <1>4, <1>6, <1>7, <1>8 DEF AuthInv

\* A transaction takes the amount as it finds it.
LEMMA SendInv == ASSUME AuthInv, NEW c \in Calls, Send(c) PROVE AuthInv'
<1>1. Open' = Open
  BY DEF AuthInv, AuthTypeOK, Send, Open
<1>2. AuthTypeOK'
  <2> DEFINE t == [fun |-> call[c].fun, asked |-> call[c].asked, value |-> Value,
                   alone |-> alone[c] /\ Open \subseteq {c}]
  <2>1. t \in [fun : Payable \cup Free, asked : Amounts \cup {0},
               value : Amounts \cup {0}, alone : BOOLEAN]
    BY DEF AuthInv, AuthTypeOK
  <2>2. sent' \in {sent, sent \cup {t}}
    BY DEF Send
  <2> HIDE DEF t
  <2> QED BY <2>1, <2>2 DEF AuthInv, AuthTypeOK, Send
<1>3. ValueOfOpen' /\ AloneHolds' /\ FreeIsZero'
  BY <1>1 DEF AuthInv, AuthTypeOK, ValueOfOpen, AloneHolds, FreeIsZero, Send
<1>4. AloneIsExact'
  <2> SUFFICES ASSUME NEW t \in sent' \ sent, t.alone PROVE t.value = t.asked
    BY DEF AuthInv, AloneIsExact
  <2>1. t = [fun |-> call[c].fun, asked |-> call[c].asked, value |-> Value,
             alone |-> alone[c] /\ Open \subseteq {c}]
    BY DEF Send
  <2>2. alone[c] /\ Open \subseteq {c}
    BY <2>1
  <2>3. CASE call[c].fun \in Payable
    <3>1. c \in Open
      BY <2>3 DEF Open, Send
    <3> QED BY <2>1, <2>2, <3>1 DEF AuthInv, AloneHolds
  <2>4. CASE call[c].fun \notin Payable
    <3>1. Open = {}
      BY <2>2, <2>4 DEF Open
    <3>2. Value = 0
      BY <3>1 DEF AuthInv, ValueOfOpen
    <3> QED BY <2>1, <2>4, <3>2 DEF AuthInv, FreeIsZero
  <2> QED BY <2>3, <2>4
<1> QED BY <1>2, <1>3, <1>4 DEF AuthInv

\* The reset closes a call, and nothing is in the field.
LEMMA ResetInv == ASSUME AuthInv, NEW c \in Calls, Reset(c) PROVE AuthInv'
<1>1. Open' = Open \ {c}
  BY DEF AuthInv, AuthTypeOK, Reset, Open
<1>2. AuthTypeOK'
  BY DEF AuthInv, AuthTypeOK, Reset
<1>3. ValueOfOpen'
  BY DEF ValueOfOpen, Reset
<1>4. AloneHolds'
  <2>1. c \in Open
    BY DEF AuthInv, FreeIsZero, Reset, Open
  <2> QED BY <1>1, <2>1 DEF AuthInv, AloneHolds, Reset
<1>5. FreeIsZero' /\ AloneIsExact'
  BY DEF AuthInv, AuthTypeOK, FreeIsZero, AloneIsExact, Reset
<1> QED BY <1>2, <1>3, <1>4, <1>5 DEF AuthInv

\* AuthInv is an invariant.
THEOREM AuthInvHolds == AuthSpec => []AuthInv
<1>1. AuthInv /\ [AuthNext]_authVars => AuthInv'
  <2> SUFFICES ASSUME AuthInv, [AuthNext]_authVars PROVE AuthInv'
    OBVIOUS
  <2>1. CASE UNCHANGED authVars
    BY <2>1 DEF AuthInv, AuthTypeOK, ValueOfOpen, AloneHolds, FreeIsZero, AloneIsExact, Open, authVars
  <2>2. CASE AuthNext
    BY <2>2, PayInv, UseInv, SendInv, ResetInv DEF AuthNext
  <2> QED BY <2>1, <2>2
<1> QED BY AuthInitInv, <1>1, PTL DEF AuthSpec

\* The types of the variables.
THEOREM AuthTypesHold == AuthSpec => []AuthTypeOK
BY AuthInvHolds, PTL DEF AuthInv

\* However payable calls overlap, fail and end, the amount is 0 once none is open.
THEOREM FieldIsReset == AuthSpec => []QuietIsZero
<1>1. AuthInv => QuietIsZero
  BY DEF AuthInv, ValueOfOpen, QuietIsZero
<1> QED BY <1>1, AuthInvHolds, PTL

\* A transaction that no payable call overlapped carries what it was asked to.
THEOREM AloneSendsAsked == AuthSpec => []AloneIsExact
BY AuthInvHolds, PTL DEF AuthInv

\* An amount is never that of a call that has ended.
THEOREM AmountsAreOpen == AuthSpec => NoStrayAmount
<1> DEFINE A == \A t \in sent' \ sent : t.value \in {0} \cup {call[c].asked : c \in Open}
<1>1. AuthInv /\ [AuthNext]_authVars => [A]_authVars
  <2> SUFFICES ASSUME AuthInv, AuthNext PROVE A
    OBVIOUS
  <2>1. ASSUME NEW c \in Calls, Send(c) PROVE A
    <3> SUFFICES ASSUME NEW t \in sent' \ sent PROVE t.value \in {0} \cup {call[d].asked : d \in Open}
      OBVIOUS
    <3>1. t.value = Value
      BY <2>1 DEF Send
    <3> QED BY <3>1 DEF AuthInv, ValueOfOpen
  <2>2. ASSUME NEW c \in Calls, Pay(c) \/ Use(c) \/ Reset(c) PROVE sent' = sent
    BY <2>2 DEF Pay, Use, Reset
  <2> QED BY <2>1, <2>2 DEF AuthNext
<1> QED BY <1>1, AuthInvHolds, PTL DEF AuthSpec, NoStrayAmount
=============================================================================
