----------------------------- MODULE PodPublish -----------------------------
(***************************************************************************)
(* Publication of data.  A seller initialises a data file (a folder under  *)
(* AliceDir/publish, named after the merkle root at the end), publishes it *)
(* in the contract, closes it and withdraws its deposit; meanwhile buyers' *)
(* requests read the same folder and the same contract entry in preAliceTx *)
(* (api.go, file.go, contract.go, seller_tx.go).  Every request is a       *)
(* handler of its own and runs concurrently with the others, file step by  *)
(* file step; the process may stop in between.                             *)
(***************************************************************************)
EXTENDS PodModes, FiniteSets

CONSTANTS
    Roots,          \* the data files, by their merkle root
    Reqs,           \* the requests, each served once
    ModeNames,      \* what the mode parameter may say
    SubModeLists,   \* what the sub_mode parameter may say
    Prices,         \* unit prices
    MaxCrashes

ASSUME PublishAssumption ==
    /\ ModeNames \subseteq DataModes \cup {"other"}
    /\ SubModeLists \subseteq Seq(SubModes)
    /\ Prices \subseteq Nat
    /\ MaxCrashes \in Nat
    /\ Roots \cap Reqs = {}

VARIABLES
    pc,       \* request -> the step it is at
    arg,      \* request -> its parameters, and what it has read
    folder,   \* folder name -> what is in it; a request names its timestamp folder
    stat,     \* root -> its status in the contract (external)
    pending,  \* transactions sent and not mined: <<call, root>>
    sold,     \* trades agreed to: root, parameters, price
    crashes

vars == <<pc, arg, folder, stat, pending, sold, crashes>>

Names == Roots \cup Reqs

\* extra.json: readable or cut short, and what it says.
NoExtra == [ok |-> FALSE, subModes |-> << >>, price |-> 0, addr |-> FALSE]
NoFolder == [there |-> FALSE, by |-> "", mode |-> "", root |-> "", extra |-> NoExtra]
NoArg == [root |-> "", mode |-> "", subModes |-> << >>, price |-> 0, ot |-> FALSE, extra |-> NoExtra]

Init ==
    /\ pc = [h \in Reqs |-> "idle"]
    /\ arg = [h \in Reqs |-> NoArg]
    /\ folder = [n \in Names |-> NoFolder]
    /\ stat = [r \in Roots |-> "none"]
    /\ pending = {}
    /\ sold = {}
    /\ crashes = 0

Goto(h, label) == pc' = [pc EXCEPT ![h] = label]
chain == <<stat, pending>>

-----------------------------------------------------------------------------
(***************************************************************************)
(* InitPublishDataAPIHandler.                                              *)
(***************************************************************************)
\* Mutant of SubModesOK: the sub-modes of plain data are not restricted.
SubModesOKAny(mode, subModes) == subModes # << >>

\* The check of the parameters; a mode that is neither plain nor table passes.
SubModesOK(mode, subModes) ==
    /\ subModes # << >>
    /\ \A i \in DOMAIN subModes :
            /\ mode = "plain" => subModes[i] \in {"complaint", "atomic_swap", "atomic_swap_vc"}
            /\ mode = "table" => subModes[i] \in SubModes

\* os.Mkdir of a folder named by the clock, with the raw file in it.
savePublishRawFile(h) == [folder EXCEPT ![h] = [NoFolder EXCEPT !.there = TRUE]]

\* The parameters are checked, the raw file is saved.
InitPublish(h) ==
    /\ pc[h] = "idle"
    /\ \E r \in Roots, mode \in ModeNames, s \in SubModeLists, p \in Prices :
            /\ arg' = [arg EXCEPT ![h] = [NoArg EXCEPT !.root = r, !.mode = mode,
                                                       !.subModes = s, !.price = p]]
            /\ IF SubModesOK(mode, s)
               THEN /\ folder' = savePublishRawFile(h)
                    /\ Goto(h, "init_raw")
               ELSE Goto(h, "done") /\ UNCHANGED folder
    /\ UNCHANGED <<chain, sold, crashes>>

\* publishRawData: the publish program (external) writes the bulletin, and fails on
\* a mode it does not know.
PublishRawData(h) ==
    /\ pc[h] = "init_raw"
    /\ IF arg[h].mode \in DataModes
       THEN /\ folder' = [folder EXCEPT ![h].by = h, ![h].mode = arg[h].mode, ![h].root = arg[h].root]
            /\ Goto(h, "init_bulletin")
       ELSE Goto(h, "done") /\ UNCHANGED folder
    /\ UNCHANGED <<arg, chain, sold, crashes>>

\* Mutant of SaveExtra: the folder gets its final name without its extra.json.
SaveNoExtra(h) ==
    /\ pc[h] = "init_bulletin"
    /\ Goto(h, "init_extra")
    /\ UNCHANGED <<arg, folder, chain, sold, crashes>>

\* readBulletinFile, savePublishExtraInfo
SaveExtra(h) ==
    /\ pc[h] = "init_bulletin"
    /\ folder' = [folder EXCEPT ![h].extra = [ok |-> TRUE, subModes |-> arg[h].subModes,
                                              price |-> arg[h].price, addr |-> FALSE]]
    /\ Goto(h, "init_extra")
    /\ UNCHANGED <<arg, chain, sold, crashes>>

\* Mutant of ReNameFolder: an older folder of the same data is replaced.
ReNameFolderOver(h) ==
    /\ pc[h] = "init_extra"
    /\ folder' = [folder EXCEPT ![folder[h].root] = folder[h], ![h] = NoFolder]
    /\ Goto(h, "done")
    /\ UNCHANGED <<arg, chain, sold, crashes>>

\* reNameFolder: os.Rename fails when the data was initialised before; the
\* timestamp folder then stays.
ReNameFolder(h) ==
    /\ pc[h] = "init_extra"
    /\ IF folder[folder[h].root].there THEN UNCHANGED folder
       ELSE folder' = [folder EXCEPT ![folder[h].root] = folder[h], ![h] = NoFolder]
    /\ Goto(h, "done")
    /\ UNCHANGED <<arg, chain, sold, crashes>>

-----------------------------------------------------------------------------
(***************************************************************************)
(* PublishDataAPIHandler.                                                  *)
(***************************************************************************)
\* pathExists, readBulletinFile, readExtraFile: the handler keeps what it read.
PublishData(h) ==
    /\ pc[h] = "idle"
    /\ \E r \in Roots :
            /\ arg' = [arg EXCEPT ![h] = [NoArg EXCEPT !.root = r, !.extra = folder[r].extra]]
            /\ Goto(h, IF folder[r].there /\ folder[r].extra.ok THEN "publish_send" ELSE "done")
    /\ UNCHANGED <<folder, chain, sold, crashes>>

\* publishPlainDataToContract, publishTableDataToContract
PublishToContract(h) ==
    /\ pc[h] = "publish_send"
    /\ IF folder[arg[h].root].mode \in DataModes
       THEN pending' = pending \cup {<<"Publish", arg[h].root>>} /\ Goto(h, "publish_cut")
       ELSE Goto(h, "done") /\ UNCHANGED pending
    /\ UNCHANGED <<arg, folder, stat, sold, crashes>>

\* savePublishExtraInfo: os.Create cuts the file that is there, ..
CutExtra(h) ==
    /\ pc[h] = "publish_cut"
    /\ folder' = [folder EXCEPT ![arg[h].root].extra.ok = FALSE]
    /\ Goto(h, "publish_write")
    /\ UNCHANGED <<arg, chain, sold, crashes>>

\* .. then what the handler read is written back with the contract's address.  A
\* write that fails is logged and the handler answers that it has published: the file
\* stays as it is, or is cut again by the part that was written.
WriteExtra(h) ==
    /\ pc[h] = "publish_write"
    /\ \/ /\ folder' = [folder EXCEPT ![arg[h].root].extra = [arg[h].extra EXCEPT !.addr = TRUE]]
          /\ Goto(h, "done")
       \/ /\ \/ folder' = [folder EXCEPT ![arg[h].root].extra.ok = FALSE]
             \/ UNCHANGED folder
          /\ Goto(h, "publish_failed")
    /\ UNCHANGED <<arg, chain, sold, crashes>>

-----------------------------------------------------------------------------
\* readDataStatusAtContract: an entry the contract does not have reads as zeros,
\* and status 0 is "OK".
readDataStatusAtContract(r) ==
    CASE stat[r] \in {"none", "ok"} -> "OK"
      [] stat[r] = "canceling"      -> "CANCELING"
      [] stat[r] = "canceled"       -> "CANCELED"

\* CloseDataAPIHandler: the status is read, then the transaction is sent.
CloseData(h) ==
    /\ pc[h] = "idle"
    /\ \E r \in Roots :
            /\ folder[r].there /\ readDataStatusAtContract(r) = "OK"
            /\ arg' = [arg EXCEPT ![h] = [NoArg EXCEPT !.root = r]]
    /\ Goto(h, "close_send")
    /\ UNCHANGED <<folder, chain, sold, crashes>>

closeDataAtContract(h) ==
    /\ pc[h] = "close_send"
    /\ pending' = pending \cup {<<"UnPublish", arg[h].root>>}
    /\ Goto(h, "done")
    /\ UNCHANGED <<arg, folder, stat, sold, crashes>>

\* AliceWithdrawFromDataAPIHandler
WithdrawFromData(h) ==
    /\ pc[h] = "idle"
    /\ \E r \in Roots :
            /\ folder[r].there
            /\ pending' = pending \cup {<<"WithdrawA", r>>}
    /\ Goto(h, "done")
    /\ UNCHANGED <<arg, folder, stat, sold, crashes>>

-----------------------------------------------------------------------------
(***************************************************************************)
(* preAliceTx on a buyer's request: the files first, then the contract,    *)
(* then the trade is agreed to.                                            *)
(***************************************************************************)
ReadOffer(h) ==
    /\ pc[h] = "idle"
    /\ \E r \in Roots, want \in SubModes \cup {""}, p \in Prices, ot \in BOOLEAN :
            LET extra == folder[r].extra
                offer == [mode |-> folder[r].mode, subModes |-> extra.subModes, floor |-> extra.price,
                          onSale |-> TRUE]
                re    == [price |-> p, subMode |-> want, ot |-> ot]
            IN  /\ folder[r].there /\ extra.ok
                /\ Acceptable(offer, re)
                /\ arg' = [arg EXCEPT ![h] = [NoArg EXCEPT
                                !.root = r, !.mode = preAliceTx(offer, re).mode,
                                !.subModes = <<preAliceTx(offer, re).subMode>>,
                                !.ot = preAliceTx(offer, re).ot, !.price = p]]
    /\ Goto(h, "sale_status")
    /\ UNCHANGED <<folder, chain, sold, crashes>>

CheckOnSale(h) ==
    /\ pc[h] = "sale_status"
    /\ Goto(h, IF readDataStatusAtContract(arg[h].root) = "OK" THEN "sale_accept" ELSE "done")
    /\ UNCHANGED <<arg, folder, chain, sold, crashes>>

AcceptSale(h) ==
    /\ pc[h] = "sale_accept"
    /\ sold' = sold \cup {[root |-> arg[h].root, price |-> arg[h].price,
                           params |-> [mode |-> arg[h].mode, subMode |-> arg[h].subModes[1],
                                       ot |-> arg[h].ot]]}
    /\ Goto(h, "done")
    /\ UNCHANGED <<arg, folder, chain, crashes>>

-----------------------------------------------------------------------------
\* The contract (external): an entry is made once, closed once and paid out after
\* it was closed; a call that does not apply reverts.
Mine ==
    /\ \E tx \in pending :
            /\ pending' = pending \ {tx}
            /\ stat' = [stat EXCEPT ![tx[2]] =
                    CASE tx[1] = "Publish" /\ @ = "none"        -> "ok"
                      [] tx[1] = "UnPublish" /\ @ = "ok"        -> "canceling"
                      [] tx[1] = "WithdrawA" /\ @ = "canceling" -> "canceled"
                      [] OTHER                                  -> @]
    /\ UNCHANGED <<pc, arg, folder, sold, crashes>>

\* A file, the publish program or the provider fails and the handler returns: what it
\* has done so far stays.
Fails(h) ==
    /\ pc[h] \in {"init_raw", "init_bulletin", "init_extra", "publish_send", "publish_cut",
                  "close_send", "sale_status", "sale_accept"}
    /\ Goto(h, "done")
    /\ UNCHANGED <<arg, folder, chain, sold, crashes>>

\* The process stops in the middle of its handlers and is started again.
Crash ==
    /\ crashes < MaxCrashes
    /\ pc' = [h \in Reqs |-> IF pc[h] = "idle" THEN "idle" ELSE "done"]
    /\ crashes' = crashes + 1
    /\ UNCHANGED <<arg, folder, chain, sold>>

Step(h) ==
    \/ InitPublish(h) \/ PublishRawData(h) \/ SaveExtra(h) \/ ReNameFolder(h)
    \/ PublishData(h) \/ PublishToContract(h) \/ CutExtra(h) \/ WriteExtra(h)
    \/ CloseData(h) \/ closeDataAtContract(h) \/ WithdrawFromData(h)
    \/ ReadOffer(h) \/ CheckOnSale(h) \/ AcceptSale(h)
    \/ Fails(h)

Next == (\E h \in Reqs : Step(h)) \/ Mine \/ Crash

Spec == Init /\ [][Next]_vars

-----------------------------------------------------------------------------
ExtraType == [ok : BOOLEAN, subModes : Seq(SubModes), price : Nat, addr : BOOLEAN]
Labels == {"idle", "init_raw", "init_bulletin", "init_extra", "publish_send", "publish_cut",
           "publish_write", "publish_failed", "close_send", "sale_status", "sale_accept", "done"}

\* Types of the variables.
TypeOK ==
    /\ pc \in [Reqs -> Labels]
    /\ \A n \in Names : folder[n].there \in BOOLEAN /\ folder[n].extra \in ExtraType
    /\ stat \in [Roots -> {"none", "ok", "canceling", "canceled"}]
    /\ \A s \in sold : s.root \in Roots /\ s.price \in Nat
    /\ crashes \in 0..MaxCrashes

\* A folder under its final name is complete: the bulletin of that data and the
\* mode, price and sub-modes of the request that made it, unless a publication is
\* writing extra.json back, failed to, or was stopped while it did, and then a buyer's
\* request finds the file unreadable and is refused.  A buyer's request never
\* finds a data file half initialised or of mixed origin, wherever the process
\* stopped and whatever ran at the same time.
FoldersComplete ==
    \A r \in Roots : folder[r].there =>
        LET made == arg[folder[r].by]
            extra == folder[r].extra
        IN  /\ folder[r].root = r
            /\ folder[r].mode = made.mode
            /\ IF extra.ok THEN extra.price = made.price /\ extra.subModes = made.subModes
               ELSE crashes > 0 \/ \E h \in Reqs : pc[h] \in {"publish_write", "publish_failed"} /\ arg[h].root = r

\* What the seller offered when the data was initialised: a mode, sub-modes, a price.
Offered(r, params, price) ==
    LET made == arg[folder[r].by]
    IN  /\ folder[r].there
        /\ params.mode = made.mode /\ made.price <= price
        /\ \E i \in DOMAIN made.subModes : params.subMode = made.subModes[i]

\* A trade that is agreed to is one the seller offered, for no less than its price, and
\* has a program: the check of the sub-modes when the data is initialised keeps out
\* what AliceAcceptTx does not dispatch, and no publication that wrote extra.json
\* back, failed to or was stopped while it did, and no other initialisation of the
\* same data, comes between the offer and the choice of preAliceTx.
SoldIsServed == \A s \in sold : AliceTxFor(s.params) # "" /\ Offered(s.root, s.params, s.price)

\* The offer of a data file does not change hands: initialising it again, at the
\* same time or later, does not replace the folder under the buyers that have
\* agreed to its mode, price and sub-modes.
OfferIsStable ==
    [][\A r \in Roots : folder[r].there => folder'[r].there /\ folder'[r].by = folder[r].by]_vars
=============================================================================
