----------------------------- MODULE NodeStart ------------------------------
(***************************************************************************)
(* Start-up and configuration of a node (main.go, init.go and the          *)
(* /config/reload handler of api.go).  main reads and saves the basic      *)
(* configuration, reads or makes the keystore, connects to the contract    *)
(* and starts two threads: the API server and SetupNode, which opens the   *)
(* buyer's side and then listens for buyers.  Reloads and purchases are    *)
(* requests to the API server and run beside SetupNode; they share the     *)
(* globals BConf, ETHKey, GAdminAuth and the two started flags.            *)
(*                                                                         *)
(* The configuration is reduced to the two fields that change, the address *)
(* to listen on and the keystore file; a file is whole, or cut short by a  *)
(* stop between its creation and the end of its write.                     *)
(***************************************************************************)
EXTENDS Naturals, FiniteSets

CONSTANTS
    IPs, DefaultIP,          \* addresses to listen on
    KsFiles, DefaultKs,      \* keystore files
    Keys,                    \* ethereum keys
    NoKey, Cut,              \* no key, a file cut short
    Reloads,                 \* handlers of /config/reload
    Buyers,                  \* handlers of /b/purchase
    MaxFaults

ASSUME StartAssumption ==
    /\ DefaultIP \in IPs /\ "" \notin IPs /\ DefaultKs \in KsFiles /\ "" \notin KsFiles
    /\ NoKey \notin Keys /\ Cut \notin Keys /\ NoKey # Cut
    /\ MaxFaults \in Nat

VARIABLES
    main,            \* the step of main
    arg,             \* its command line, until it is merged
    BConf,           \* configuration in memory
    cfgFile,         \* the configuration file, and what it held when it was whole
    ks,              \* the keystore files
    ETHKey, GAdminAuth,
    BobNodeStart, AliceNodeStart,
    node,            \* the step of SetupNode
    seller,          \* the key AliceStartNode was called with
    reload,          \* the handlers of reloads
    buy,             \* the handlers of purchases
    made, used,      \* accounts made and written here, and keys that have been ETHKey
    faults

mem == <<BConf, ETHKey, GAdminAuth, BobNodeStart, AliceNodeStart, node, seller, reload, buy>>
disk == <<cfgFile, ks>>
vars == <<main, arg, mem, disk, made, used, faults>>

Conf == [ip : IPs, ks : KsFiles]
Defaults == [ip |-> DefaultIP, ks |-> DefaultKs]
Args == [ip : IPs \cup {""}, ks : KsFiles \cup {""}]
NoArgs == [ip |-> "", ks |-> ""]
NoReload == [pc |-> "idle", key |-> NoKey, ks |-> "", conf |-> Defaults]
NoBuy == [pc |-> "idle", conn |-> NoKey, row |-> NoKey, quiet |-> FALSE]

\* The memory of a process that has just started.
FreshMem ==
    /\ BConf' = Defaults /\ ETHKey' = NoKey /\ GAdminAuth' = NoKey
    /\ BobNodeStart' = FALSE /\ AliceNodeStart' = FALSE
    /\ node' = "off" /\ seller' = NoKey
    /\ reload' = [h \in Reloads |-> NoReload]
    /\ buy' = [b \in Buyers |-> NoBuy]

Init ==
    /\ main = "down" /\ arg = NoArgs
    /\ BConf = Defaults /\ ETHKey = NoKey /\ GAdminAuth = NoKey
    /\ BobNodeStart = FALSE /\ AliceNodeStart = FALSE
    /\ node = "off" /\ seller = NoKey
    /\ reload = [h \in Reloads |-> NoReload]
    /\ buy = [b \in Buyers |-> NoBuy]
    /\ cfgFile = [st |-> "none", conf |-> Defaults]
    /\ ks \in [KsFiles -> Keys \cup {NoKey}]
    /\ made = {} /\ used = {} /\ faults = 0

Fault == faults < MaxFaults /\ faults' = faults + 1

-----------------------------------------------------------------------------
(***************************************************************************)
(* main.                                                                   *)
(***************************************************************************)
\* Mutant of readBasicFile: a file that does not parse is taken for none.
readBasicFileLenient(a) ==
    LET pre == IF cfgFile.st = "whole" THEN cfgFile.conf ELSE Defaults
    IN  /\ BConf' = [ip |-> IF a.ip = "" THEN pre.ip ELSE a.ip,
                     ks |-> IF a.ks = "" THEN pre.ks ELSE a.ks]

\* The command line before the file before the defaults; a file that does not parse
\* ends the process.
readBasicFile(a) ==
    LET pre == IF cfgFile.st = "whole" THEN cfgFile.conf ELSE Defaults
    IN  /\ cfgFile.st # "cut"
        /\ BConf' = [ip |-> IF a.ip = "" THEN pre.ip ELSE a.ip,
                     ks |-> IF a.ks = "" THEN pre.ks ELSE a.ks]

ReadConfig ==
    /\ main = "down"
    /\ \E a \in Args : readBasicFile(a) /\ arg' = a
    /\ main' = "create"
    /\ UNCHANGED <<ETHKey, GAdminAuth, BobNodeStart, AliceNodeStart, node, seller, reload, buy>>
    /\ UNCHANGED <<disk, made, used, faults>>

\* saveBasicConfig: os.Create empties the file, then what was marshalled before is
\* written.
CreateConfig == cfgFile' = [cfgFile EXCEPT !.st = "cut"] /\ UNCHANGED ks
WriteConfig(conf) == cfgFile' = [st |-> "whole", conf |-> conf] /\ UNCHANGED ks

SaveConfig ==
    /\ \/ main = "create" /\ CreateConfig /\ main' = "write"
       \/ main = "write" /\ WriteConfig(BConf) /\ main' = "account"
    /\ arg' = NoArgs
    /\ UNCHANGED <<mem, made, used, faults>>

\* Mutant of KeystoreMissing: an account is made at every start.
KeystoreMissingAlways(f) == TRUE

\* pathExists
KeystoreMissing(f) == ks[f] = NoKey

\* readKeyStore: a new account is made when there is no keystore file; copyKeyStore
\* creates the file and then writes it.  (An account that is not written is lost and
\* nothing is known of it.)
NewAccount ==
    /\ main = "account" /\ KeystoreMissing(BConf.ks)
    /\ ks' = [ks EXCEPT ![BConf.ks] = Cut]
    /\ main' = "copy"
    /\ UNCHANGED <<arg, mem, cfgFile, made, used, faults>>

copyKeyStore ==
    /\ main = "copy"
    /\ \E k \in Keys : /\ k \notin made \cup used \cup {ks[f] : f \in KsFiles}
                       /\ made' = made \cup {k}
                       /\ ks' = [ks EXCEPT ![BConf.ks] = k]
    /\ main' = "key"
    /\ UNCHANGED <<arg, mem, cfgFile, used, faults>>

\* readKeyStore: the file is decrypted, the contract is connected (ConnectToProvider).
readKeyStore ==
    /\ main = "key" \/ (main = "account" /\ ~KeystoreMissing(BConf.ks))
    /\ ks[BConf.ks] \in Keys
    /\ ETHKey' = ks[BConf.ks] /\ GAdminAuth' = ETHKey'
    /\ used' = used \cup {ETHKey'}
    /\ main' = "prepare"
    /\ UNCHANGED <<arg, BConf, BobNodeStart, AliceNodeStart, node, seller, reload, buy, disk, made, faults>>

\* preparePOD, initDir and connectSQLite; then SetupPOD starts the two threads.
SetupPOD ==
    /\ main = "prepare"
    /\ main' = "up" /\ node' = "bob"
    /\ UNCHANGED <<arg, BConf, ETHKey, GAdminAuth, BobNodeStart, AliceNodeStart, seller, reload, buy>>
    /\ UNCHANGED <<disk, made, used, faults>>

\* A step of start-up fails and main panics, or the process is stopped at any time.
Stop ==
    /\ main # "down" /\ Fault
    /\ main' = "down" /\ FreshMem
    /\ UNCHANGED <<arg, disk, made, used>>

-----------------------------------------------------------------------------
(***************************************************************************)
(* SetupNode and AliceStartNode.                                           *)
(***************************************************************************)
StartBob ==
    /\ node = "bob" /\ GAdminAuth # NoKey
    /\ BobNodeStart' = TRUE /\ node' = "alice"
    /\ UNCHANGED <<main, arg, BConf, ETHKey, GAdminAuth, AliceNodeStart, seller, reload, buy>>
    /\ UNCHANGED <<disk, made, used, faults>>

StartAlice ==
    /\ node = "alice" /\ GAdminAuth # NoKey
    /\ seller' = ETHKey /\ node' = "listen"
    /\ UNCHANGED <<main, arg, BConf, ETHKey, GAdminAuth, BobNodeStart, AliceNodeStart, reload, buy>>
    /\ UNCHANGED <<disk, made, used, faults>>

Listen ==
    /\ node = "listen"
    /\ AliceNodeStart' = TRUE /\ node' = "serve"
    /\ UNCHANGED <<main, arg, BConf, ETHKey, GAdminAuth, BobNodeStart, seller, reload, buy>>
    /\ UNCHANGED <<disk, made, used, faults>>

\* Mutant of ListenFails: SetupNode returns.
ListenFailsEnds ==
    /\ node = "listen" /\ Fault
    /\ AliceNodeStart' = FALSE /\ node' = "off"
    /\ UNCHANGED <<main, arg, BConf, ETHKey, GAdminAuth, BobNodeStart, seller, reload, buy>>
    /\ UNCHANGED <<disk, made, used>>

\* The address is taken or does not resolve: SetupNode tries again.
ListenFails ==
    /\ node = "listen" /\ Fault
    /\ AliceNodeStart' = FALSE /\ node' = "alice"
    /\ UNCHANGED <<main, arg, BConf, ETHKey, GAdminAuth, BobNodeStart, seller, reload, buy>>
    /\ UNCHANGED <<disk, made, used>>

-----------------------------------------------------------------------------
(***************************************************************************)
(* ReLoadConfigAPIHandler.                                                 *)
(***************************************************************************)
AtReload(h, from, to) ==
    /\ main = "up" /\ reload[h].pc = from
    /\ reload' = [reload EXCEPT ![h] = IF to \in {"key", "set"} THEN [@ EXCEPT !.pc = to] ELSE [NoReload EXCEPT !.pc = to]]
still == <<main, arg, BobNodeStart, AliceNodeStart, node, seller, buy, made>>

\* Refused once both sides have started; the address may change until the seller has.
ReloadIP(h) ==
    /\ AtReload(h, "idle", "key")
    /\ ~(AliceNodeStart /\ BobNodeStart)
    /\ \E ip \in IPs \cup {BConf.ip} : BConf' = IF AliceNodeStart THEN BConf ELSE [BConf EXCEPT !.ip = ip]
    /\ UNCHANGED <<still, ETHKey, GAdminAuth, disk, used, faults>>

\* Mutant of KeyMayChange: until the seller has started.
KeyMayChangeLate == ~AliceNodeStart

\* The key may change until a side has started.
KeyMayChange == ~AliceNodeStart /\ ~BobNodeStart

\* The flags are read, then a key is given or read from a keystore file; none, or one
\* that cannot be read, does not change anything.
ReloadKey(h) ==
    /\ main = "up" /\ reload[h].pc = "key"
    /\ \/ /\ KeyMayChange
          /\ \/ \E k \in Keys : reload' = [reload EXCEPT ![h] = [pc |-> "connect", key |-> k, ks |-> "", conf |-> Defaults]]
             \/ \E f \in KsFiles : reload' = [reload EXCEPT ![h] =
                    IF ks[f] \in Keys THEN [pc |-> "connect", key |-> ks[f], ks |-> f, conf |-> Defaults] ELSE NoReload]
       \/ reload' = [reload EXCEPT ![h].pc = "create"]
    /\ UNCHANGED <<still, BConf, ETHKey, GAdminAuth, disk, used, faults>>

\* ConnectToProvider replaces the transactor at its end.
ReloadConnect(h) ==
    /\ AtReload(h, "connect", "set")
    /\ GAdminAuth' = reload[h].key
    /\ UNCHANGED <<still, BConf, ETHKey, disk, used, faults>>

\* The provider does not answer: the handler returns.
ReloadConnectFails(h) ==
    /\ main = "up" /\ reload[h].pc = "connect" /\ Fault
    /\ reload' = [reload EXCEPT ![h] = NoReload]
    /\ UNCHANGED <<still, BConf, ETHKey, GAdminAuth, disk, used>>

ReloadSet(h) ==
    /\ AtReload(h, "set", "create")
    /\ ETHKey' = reload[h].key /\ used' = used \cup {reload[h].key}
    /\ BConf' = IF reload[h].ks = "" THEN BConf ELSE [BConf EXCEPT !.ks = reload[h].ks]
    /\ UNCHANGED <<still, GAdminAuth, disk, faults>>

ReloadSave(h) ==
    /\ main = "up"
    /\ \/ /\ reload[h].pc = "create" /\ CreateConfig
          /\ reload' = [reload EXCEPT ![h] = [NoReload EXCEPT !.pc = "write", !.conf = BConf]]
       \/ AtReload(h, "write", "idle") /\ WriteConfig(reload[h].conf)
    /\ UNCHANGED <<still, BConf, ETHKey, GAdminAuth, used, faults>>

\* The file cannot be created, or its write fails on the way: the handler returns.
ReloadSaveFails(h) ==
    /\ main = "up" /\ reload[h].pc \in {"create", "write"} /\ Fault
    /\ \/ UNCHANGED disk
       \/ reload[h].pc = "write" /\ CreateConfig
    /\ reload' = [reload EXCEPT ![h] = NoReload]
    /\ UNCHANGED <<still, BConf, ETHKey, GAdminAuth, used>>

-----------------------------------------------------------------------------
(***************************************************************************)
(* BobPurchaseDataAPIHandler reads ETHKey when it connects, when it names  *)
(* the buyer in the row of the trade and when it calls the program.        *)
(***************************************************************************)
Purchase(b) ==
    /\ main = "up"
    /\ \/ /\ buy[b].pc = "idle"
          /\ buy' = [buy EXCEPT ![b] = [pc |-> "row", conn |-> ETHKey, row |-> NoKey,
                        quiet |-> BobNodeStart /\ \A h \in Reloads : reload[h].pc \notin {"connect", "set"}]]
       \/ /\ buy[b].pc = "row"
          /\ buy' = [buy EXCEPT ![b].pc = "program", ![b].row = ETHKey]
       \/ /\ buy[b].pc = "program"
          /\ buy' = [buy EXCEPT ![b] = NoBuy]
    /\ UNCHANGED <<main, arg, BConf, ETHKey, GAdminAuth, BobNodeStart, AliceNodeStart, node, seller, reload>>
    /\ UNCHANGED <<disk, made, used, faults>>

Next ==
    \/ ReadConfig \/ SaveConfig \/ NewAccount \/ copyKeyStore \/ readKeyStore \/ SetupPOD \/ Stop
    \/ StartBob \/ StartAlice \/ Listen \/ ListenFails
    \/ \E h \in Reloads : \/ ReloadIP(h) \/ ReloadKey(h) \/ ReloadConnect(h) \/ ReloadConnectFails(h)
                          \/ ReloadSet(h) \/ ReloadSave(h)
                          \/ ReloadSaveFails(h)
    \/ \E b \in Buyers : Purchase(b)

Spec == Init /\ [][Next]_vars

\* SetupNode is a thread of its own; an address that is free can be listened on.
FairSpec == Spec /\ WF_vars(StartBob) /\ WF_vars(StartAlice) /\ WF_vars(Listen)

-----------------------------------------------------------------------------
AnyKey == Keys \cup {NoKey}

\* Types of the variables.
TypeOK ==
    /\ main \in {"down", "create", "write", "account", "copy", "key", "prepare", "up"}
    /\ arg \in Args /\ BConf \in Conf
    /\ cfgFile \in [st : {"none", "cut", "whole"}, conf : Conf]
    /\ ks \in [KsFiles -> AnyKey \cup {Cut}]
    /\ ETHKey \in AnyKey /\ GAdminAuth \in AnyKey
    /\ BobNodeStart \in BOOLEAN /\ AliceNodeStart \in BOOLEAN
    /\ node \in {"off", "bob", "alice", "listen", "serve"}
    /\ seller \in AnyKey
    /\ reload \in [Reloads -> [pc : {"idle", "key", "connect", "set", "create", "write"},
                               key : AnyKey, ks : KsFiles \cup {""}, conf : Conf]]
    /\ buy \in [Buyers -> [pc : {"idle", "row", "program"}, conn : AnyKey, row : AnyKey, quiet : BOOLEAN]]
    /\ made \subseteq Keys /\ used \subseteq Keys /\ faults \in 0..MaxFaults

\* A start without arguments runs with the configuration of the last save that
\* ended, whatever stops happened since and at which step of a save: it is never the
\* default one once another was saved.
StartsAsSaved == main = "create" /\ arg = NoArgs => BConf = cfgFile.conf

\* An account the node made and then traded with is kept in a keystore file, whatever
\* is started, stopped and reloaded afterwards: its deposits stay within reach.
AccountIsKept == \A k \in made \cap used : \E f \in KsFiles : ks[f] = k

\* Reloads come one after the other.
OneReload == \A g, h \in Reloads : g = h

\* A purchase that begins once the buyer's side has started, with no reload beyond its
\* check, connects, is recorded and signs with one key, whatever is reloaded meanwhile.
\* Its transactions are sent with that key too when reloads come one after the other:
\* two that overlap set the transactor in one order and ETHKey in the other.
TradeOneKey ==
    \A b \in Buyers : buy[b].quiet => /\ buy[b].conn = ETHKey
                                      /\ buy[b].pc = "program" => buy[b].row = ETHKey
                                      /\ OneReload => GAdminAuth = ETHKey

\* The node listens for buyers some time after it was set up, although an address may
\* be refused, unless it is stopped.
Listens == main = "up" ~> (AliceNodeStart \/ main = "down")
=============================================================================
