----------------------------- MODULE AdminAuth ------------------------------
(***************************************************************************)
(* The amounts sent to the contract.  Every transaction of the node goes   *)
(* through the one global GAdminAuth, whose Value field is the amount it   *)
(* carries (contract.go).  Publish and BobDeposit set the field, call the  *)
(* contract and reset the field in a deferred function; the other calls    *)
(* use it as they find it.  Handlers and trades run concurrently.          *)
(***************************************************************************)
EXTENDS Naturals, FiniteSets

CONSTANTS
    Calls,      \* the calls of the contract a node makes, by number
    Amounts     \* what is deposited or pledged

ASSUME AmountsAssumption == Amounts \subseteq Nat \ {0}

\* The functions of the contract that take ether, and the ones that do not.
Payable == {"Publish", "BobDeposit"}
Free == {"UnPublish", "WithdrawA", "BobUnDeposit", "WithdrawB", "SubmitProof",
         "Claim", "SettleComplaintDeal"}

VARIABLES
    step,    \* where each call is
    call,    \* its function and the amount it was asked to send
    alone,   \* no other payable call has been open at the same time
    Value,   \* GAdminAuth.Value; nil counts as 0
    sent     \* the transactions: function, asked amount, amount, and alone

authVars == <<step, call, alone, Value, sent>>

NoCall == [fun |-> "UnPublish", asked |-> 0]

AuthInit ==
    /\ step = [c \in Calls |-> "idle"]
    /\ call = [c \in Calls |-> NoCall]
    /\ alone = [c \in Calls |-> TRUE]
    /\ Value = 0
    /\ sent = {}

\* The payable calls between setting the field and resetting it.
Open == {c \in Calls : call[c].fun \in Payable /\ step[c] \in {"send", "reset"}}

-----------------------------------------------------------------------------
\* Mutant of Amount: a deposit does not set it.
AmountOfPublish(f, a) == IF f = "Publish" THEN a ELSE Value

\* What the field is set to.
Amount(f, a) == a

\* publishPlainDataToContract, publishTableDataToContract, BobDeposit: the amount is
\* set.  A new call is not alone when another is open, and neither is that one then.
Pay(c) ==
    /\ step[c] = "idle"
    /\ \E f \in Payable, a \in Amounts : /\ call' = [call EXCEPT ![c] = [fun |-> f, asked |-> a]]
                                         /\ Value' = Amount(f, a)
    /\ step' = [step EXCEPT ![c] = "send"]
    /\ alone' = [d \in Calls |-> IF d = c THEN Open = {} ELSE d \notin Open /\ alone[d]]
    /\ UNCHANGED sent

\* closeDataAtContract, withdrawAETHFromContract, BobUnDeposit,
\* BobWithdrawETHFromContract, the submission of a secret, a claim or a settlement.
Use(c) ==
    /\ step[c] = "idle"
    /\ \E f \in Free : call' = [call EXCEPT ![c] = [fun |-> f, asked |-> 0]]
    /\ step' = [step EXCEPT ![c] = "send"]
    /\ alone' = [alone EXCEPT ![c] = Open = {}]
    /\ UNCHANGED <<Value, sent>>

\* The transactor reads the field (external); the node refuses a transaction that its
\* gas estimation says will revert, such as ether for a function that takes none.
Accepts(f, v) == f \in Payable \/ v = 0

\* Mutant of Send: the field is reset only after a success.
SendResets(c) ==
    /\ step[c] = "send"
    /\ \/ /\ Accepts(call[c].fun, Value)
          /\ sent' = sent \cup {[fun |-> call[c].fun, asked |-> call[c].asked, value |-> Value,
                                 alone |-> alone[c] /\ Open \subseteq {c}]}
          /\ step' = [step EXCEPT ![c] = IF call[c].fun \in Payable THEN "reset" ELSE "done"]
       \/ /\ UNCHANGED sent
          /\ step' = [step EXCEPT ![c] = "done"]
    /\ UNCHANGED <<call, alone, Value>>

Send(c) ==
    /\ step[c] = "send"
    /\ \/ /\ Accepts(call[c].fun, Value)
          /\ sent' = sent \cup {[fun |-> call[c].fun, asked |-> call[c].asked, value |-> Value,
                                 alone |-> alone[c] /\ Open \subseteq {c}]}
       \/ UNCHANGED sent
    /\ step' = [step EXCEPT ![c] = IF call[c].fun \in Payable THEN "reset" ELSE "done"]
    /\ UNCHANGED <<call, alone, Value>>

\* The deferred function.
Reset(c) ==
    /\ step[c] = "reset"
    /\ Value' = 0
    /\ step' = [step EXCEPT ![c] = "done"]
    /\ UNCHANGED <<call, alone, sent>>

AuthNext == \E c \in Calls : Pay(c) \/ Use(c) \/ Send(c) \/ Reset(c)

AuthSpec == AuthInit /\ [][AuthNext]_authVars

-----------------------------------------------------------------------------
\* Types of the variables.
AuthTypeOK ==
    /\ step \in [Calls -> {"idle", "send", "reset", "done"}]
    /\ call \in [Calls -> [fun : Payable \cup Free, asked : Amounts \cup {0}]]
    /\ alone \in [Calls -> BOOLEAN]
    /\ Value \in Amounts \cup {0}
    /\ sent \subseteq [fun : Payable \cup Free, asked : Amounts \cup {0},
                       value : Amounts \cup {0}, alone : BOOLEAN]

\* However calls overlap, fail and end, the field is 0 again once no payable call is
\* open: an amount never waits for a later transaction to pick it up.
QuietIsZero == Open = {} => Value = 0

\* A transaction no other payable call overlapped carries what it was asked to: the
\* amount of a deposit or a publication, nothing for the others.
AloneIsExact == \A t \in sent : t.alone => t.value = t.asked

\* The amount of a transaction is nothing or what a payable call that is open asked for.
NoStrayAmount ==
    [][\A t \in sent' \ sent : t.value \in {0} \cup {call[c].asked : c \in Open}]_authVars
=============================================================================
