---------------------------- MODULE DepositLock -----------------------------
(***************************************************************************)
(* Trades of one buyer that draw on the same deposit.  The contract only   *)
(* knows the deposit; Alice's process keeps the part of it promised to     *)
(* running trades in DepositLockMap, a plain map that every transaction    *)
(* goroutine reads and writes without a mutex.  calcuDeposit reads the     *)
(* deposit, compares, then adds to the entry; the deferred function of the *)
(* program subtracts.  Each of these is a step here, and any number of     *)
(* trades runs at once.  Two history variables, which no step of the node  *)
(* reads, record that steps no mutex keeps apart have overlapped, and that *)
(* a key was left to be mined without a lock.                              *)
(*                                                                         *)
(* The buyer does not undeposit in this module (PodTrade has that).        *)
(***************************************************************************)
EXTENDS Integers

CONSTANTS
    Sessions,       \* trades of the buyer
    Price,          \* Price[s]: unit price times count
    Total,          \* Total[T]: the prices of a set of trades, added up
    MaxDeposit,     \* bound on the deposit
    MaxFaults       \* bound on crashes and on waits given up

ASSUME PriceAssumption == Price \in [Sessions -> Nat]
ASSUME TotalAssumption ==
    /\ Total \in [SUBSET Sessions -> Nat]
    /\ Total[{}] = 0
    /\ \A T \in SUBSET Sessions : \A s \in Sessions \ T : Total[T \cup {s}] = Total[T] + Price[s]
ASSUME BoundsAssumption == MaxDeposit \in Nat /\ MaxFaults \in Nat

VARIABLES
    pc,         \* pc[s]: where the program of s is
    lock,       \* DepositLockMap[AliceAddr+BobAddr]
    snap,       \* snap[s]: the deposit calcuDeposit has read, 0 once it has compared
    reg,        \* reg[s]: the entry as loaded for += and -=, 0 once it is stored
    deposit,    \* the deposit in the contract
    key,        \* key[s]: "none", "pending" (submitted), "mined", "reverted"
    raced,      \* history: sections of two trades have overlapped since the start
    orphan,     \* history: a key was pending when the lock of its trade was dropped
    faults

vars == <<pc, lock, snap, reg, deposit, key, raced, orphan, faults>>

PCs == {"idle", "read", "check", "load", "store", "held", "wait", "unload", "unstore", "ended"}

Active(s) == pc[s] \notin {"idle", "ended"}

\* The sections of a program that a mutex would have to keep apart: calcuDeposit from
\* its read of the deposit to its store, and the release from its load to its store.
InSection(s) == pc[s] \in {"check", "load", "store", "unstore"}
EnterSection(s) == raced' = (raced \/ \E t \in Sessions \ {s} : InSection(t))
history == <<raced, orphan>>

Goto(s, l) == pc' = [pc EXCEPT ![s] = l]

-----------------------------------------------------------------------------
Init ==
    /\ pc = [s \in Sessions |-> "idle"]
    /\ lock = 0
    /\ snap = [s \in Sessions |-> 0]
    /\ reg = [s \in Sessions |-> 0]
    /\ deposit \in 0..MaxDeposit
    /\ key = [s \in Sessions |-> "none"]
    /\ raced = FALSE /\ orphan = FALSE
    /\ faults = 0

\* AliceStartNode gives every connection a goroutine of its own.
Accept(s) ==
    /\ pc[s] = "idle"
    /\ Goto(s, "read")
    /\ UNCHANGED <<lock, snap, reg, deposit, key, history, faults>>

\* calcuDeposit: the call to the contract.
ReadDeposit(s) ==
    /\ pc[s] = "read"
    /\ snap' = [snap EXCEPT ![s] = deposit]
    /\ Goto(s, "check")
    /\ EnterSection(s)
    /\ UNCHANGED <<lock, reg, deposit, key, orphan, faults>>

\* calcuDeposit: the comparison.
CheckLock(s) ==
    /\ pc[s] = "check"
    /\ Goto(s, IF Price[s] + lock > snap[s] THEN "ended" ELSE "load")
    /\ snap' = [snap EXCEPT ![s] = 0]
    /\ UNCHANGED <<lock, reg, deposit, key, history, faults>>

\* calcuDeposit: DepositLockMap[..] += value, a load and a store.
LoadLock(s) ==
    /\ pc[s] = "load"
    /\ reg' = [reg EXCEPT ![s] = lock]
    /\ Goto(s, "store")
    /\ UNCHANGED <<lock, snap, deposit, key, history, faults>>

StoreLock(s) ==
    /\ pc[s] = "store"
    /\ lock' = reg[s] + Price[s]
    /\ reg' = [reg EXCEPT ![s] = 0]
    /\ Goto(s, "held")
    /\ UNCHANGED <<snap, deposit, key, history, faults>>

\* submitScrtFor..
Submit(s) ==
    /\ pc[s] = "held"
    /\ key' = [key EXCEPT ![s] = "pending"]
    /\ Goto(s, "wait")
    /\ UNCHANGED <<lock, snap, reg, deposit, history, faults>>

\* Mutant of Abandon: an early return without the release.
AbandonKeeps(s) ==
    /\ pc[s] = "held"
    /\ Goto(s, "ended")
    /\ UNCHANGED <<lock, snap, reg, deposit, key, history, faults>>

\* Any step of the program between calcuDeposit and submitScrtFor.. fails.
Abandon(s) ==
    /\ pc[s] = "held"
    /\ Goto(s, "unload")
    /\ UNCHANGED <<lock, snap, reg, deposit, key, history, faults>>

\* Mutant of Settled: the lock is released before the key is mined.
SettledEarly(s) ==
    /\ pc[s] = "wait"
    /\ Goto(s, "unload")
    /\ UNCHANGED <<lock, snap, reg, deposit, key, history, faults>>

\* readScrtFor.. returns the mined key; a reverted one leaves no record and the
\* wait ends after its last round.
Settled(s) ==
    /\ pc[s] = "wait"
    /\ key[s] # "pending"
    /\ Goto(s, "unload")
    /\ UNCHANGED <<lock, snap, reg, deposit, key, history, faults>>

\* Mutant of GiveUp: the lock of a key that was not seen is kept.
GiveUpKeeps(s) ==
    /\ pc[s] = "wait"
    /\ key[s] = "pending"
    /\ faults < MaxFaults
    /\ Goto(s, "ended")
    /\ orphan' = TRUE
    /\ faults' = faults + 1
    /\ UNCHANGED <<lock, snap, reg, deposit, key, raced>>

\* The rounds of readScrtFor.. run out while the key is still to be mined.
GiveUp(s) ==
    /\ pc[s] = "wait"
    /\ key[s] = "pending"
    /\ faults < MaxFaults
    /\ Goto(s, "unload")
    /\ orphan' = TRUE
    /\ faults' = faults + 1
    /\ UNCHANGED <<lock, snap, reg, deposit, key, raced>>

\* The deferred DepositLockMap[..] -= tx.Price.
UnloadLock(s) ==
    /\ pc[s] = "unload"
    /\ reg' = [reg EXCEPT ![s] = lock]
    /\ Goto(s, "unstore")
    /\ EnterSection(s)
    /\ UNCHANGED <<lock, snap, deposit, key, orphan, faults>>

UnstoreLock(s) ==
    /\ pc[s] = "unstore"
    /\ lock' = reg[s] - Price[s]
    /\ reg' = [reg EXCEPT ![s] = 0]
    /\ Goto(s, "ended")
    /\ UNCHANGED <<snap, deposit, key, history, faults>>

\* The process stops and is started again: its goroutines and the map are gone.
Crash ==
    /\ faults < MaxFaults
    /\ pc' = [s \in Sessions |-> IF Active(s) THEN "ended" ELSE pc[s]]
    /\ lock' = 0
    /\ snap' = [s \in Sessions |-> 0]
    /\ reg' = [s \in Sessions |-> 0]
    /\ raced' = FALSE
    /\ orphan' = (orphan \/ \E s \in Sessions : key[s] = "pending")
    /\ faults' = faults + 1
    /\ UNCHANGED <<deposit, key>>

\* The contract (external) pays for the key from the deposit, or reverts.
Mine(s) ==
    /\ key[s] = "pending"
    /\ IF Price[s] <= deposit
       THEN /\ key' = [key EXCEPT ![s] = "mined"]
            /\ deposit' = deposit - Price[s]
       ELSE /\ key' = [key EXCEPT ![s] = "reverted"]
            /\ UNCHANGED deposit
    /\ UNCHANGED <<pc, lock, snap, reg, history, faults>>

BobDeposit ==
    /\ \E v \in 1..MaxDeposit : deposit + v <= MaxDeposit /\ deposit' = deposit + v
    /\ UNCHANGED <<pc, lock, snap, reg, key, history, faults>>

Serve(s) ==
    \/ Accept(s) \/ ReadDeposit(s) \/ CheckLock(s) \/ LoadLock(s) \/ StoreLock(s)
    \/ Submit(s) \/ Abandon(s) \/ Settled(s) \/ GiveUp(s)
    \/ UnloadLock(s) \/ UnstoreLock(s)

Next ==
    \/ \E s \in Sessions : Serve(s) \/ Mine(s)
    \/ Crash
    \/ BobDeposit

Spec == Init /\ [][Next]_vars /\ \A s \in Sessions : WF_vars(Serve(s)) /\ WF_vars(Mine(s))

-----------------------------------------------------------------------------
\* Types of the variables.  The entry may go below zero once sections have overlapped.
TypeOK ==
    /\ pc \in [Sessions -> PCs]
    /\ lock \in Int
    /\ snap \in [Sessions -> 0..MaxDeposit]
    /\ reg \in [Sessions -> Int]
    /\ deposit \in 0..MaxDeposit
    /\ key \in [Sessions -> {"none", "pending", "mined", "reverted"}]
    /\ raced \in BOOLEAN /\ orphan \in BOOLEAN
    /\ faults \in 0..MaxFaults

Holds(s) == pc[s] \in {"held", "wait", "unload", "unstore"}
Holding == {s \in Sessions : Holds(s)}

\* However many trades of a buyer run, fail, are refused or die with the process, the
\* entry is the sum of the prices of the trades that hold it, as long as no two of
\* their sections overlap: what each trade adds is given back once, on every path.
LockExact == ~raced => lock = Total[Holding]

\* README.md, requirement {3}: "Bob must pay before obtaining the key".  Unless
\* the process stops or stops waiting while a key is still to be mined, every key
\* that has been sent to the contract is paid from the deposit.
KeyPaid == faults = 0 => \A s \in Sessions : key[s] # "reverted"

\* A key sent to the contract is refused there only after sections have overlapped or
\* a key was left pending without a lock: with calcuDeposit and the release kept
\* apart, any number of trades at once, in any order of their other steps and with
\* restarts in between, never promises more than the deposit has.
RefusedWhy ==
    [][\A s \in Sessions : key'[s] = "reverted" /\ key[s] # "reverted" => raced \/ orphan]_vars

\* Every trade comes to its end, however many run at once, and then nothing is left
\* locked unless sections have overlapped.
AllReleased == <>[]((\A s \in Sessions : pc[s] = "ended") /\ (raced \/ lock = 0))
=============================================================================
