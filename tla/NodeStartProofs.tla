-------------------------- MODULE NodeStartProofs ---------------------------
(***************************************************************************)
(* NodeStart for any addresses, keystore files, keys, handlers and faults. *)
(***************************************************************************)
EXTENDS NodeStart, TLAPS

ReloadType == [pc : {"idle", "key", "connect", "set", "create", "write"},
               key : AnyKey, ks : KsFiles \cup {""}, conf : Conf]
BuyType == [pc : {"idle", "row", "program"}, conn : AnyKey, row : AnyKey, quiet : BOOLEAN]

\* Nothing was saved before the first save, and a start without arguments runs with
\* what was saved last.
SavedInv == (cfgFile.st = "none" => cfgFile.conf = Defaults) /\ StartsAsSaved

\* The file an account is about to be copied to holds no other one, and every account
\* that was made is in a file.
KeptInv ==
    /\ main = "copy" => ks[BConf.ks] = Cut
    /\ \A k \in made : \E f \in KsFiles : ks[f] = k

\* Handlers run while the node is up.
DownInv == main # "up" => /\ \A h \in Reloads : reload[h].pc = "idle"
                          /\ \A b \in Buyers : ~buy[b].quiet

\* No reload can change the key under a purchase that began with the buyer's side
\* started and no reload beyond its check.
QuietInv ==
    \A b \in Buyers : buy[b].quiet =>
        /\ BobNodeStart /\ \A h \in Reloads : reload[h].pc \notin {"connect", "set"}
        /\ buy[b].conn = ETHKey
        /\ buy[b].pc = "program" => buy[b].row = ETHKey

\* One reload: the transactor has ETHKey, or the key the reload is about to set.
OneKeyInv ==
    OneReload =>
        /\ (\A h \in Reloads : reload[h].pc # "set") => GAdminAuth = ETHKey
        /\ \A h \in Reloads : reload[h].pc = "set" => GAdminAuth = reload[h].key

\* A reload that goes on to connect has a key.
KeyedInv == \A h \in Reloads : reload[h].pc \in {"connect", "set"} => reload[h].key \in Keys

StartInv == TypeOK /\ KeyedInv /\ SavedInv /\ KeptInv /\ DownInv /\ QuietInv /\ OneKeyInv

-----------------------------------------------------------------------------
\* A handler that moves on keeps its key, or forgets it.
LEMMA ReloadMoves ==
    ASSUME TypeOK, NEW h \in Reloads, NEW from, NEW to \in {"idle", "key", "connect", "set", "create", "write"},
           AtReload(h, from, to)
    PROVE  /\ reload' \in [Reloads -> ReloadType] /\ main = "up" /\ reload[h].pc = from
           /\ reload'[h].pc = to
           /\ to = "set" => reload'[h].key = reload[h].key
           /\ \A g \in Reloads : g # h => reload'[g] = reload[g]
<1>1. reload \in [Reloads -> ReloadType] /\ NoReload \in ReloadType
  BY StartAssumption DEF TypeOK, ReloadType, NoReload, Defaults, Conf, AnyKey
<1>2. /\ [NoReload EXCEPT !.pc = to] \in ReloadType /\ [NoReload EXCEPT !.pc = to].pc = to
      /\ [reload[h] EXCEPT !.pc = to] \in ReloadType /\ [reload[h] EXCEPT !.pc = to].pc = to
      /\ [reload[h] EXCEPT !.pc = to].key = reload[h].key
  BY <1>1 DEF ReloadType
<1> QED BY <1>1, <1>2 DEF AtReload

\* A step of saving the configuration, done or failed.
LEMMA SaveMoves ==
    ASSUME TypeOK, NEW h \in Reloads, ReloadSave(h) \/ ReloadSaveFails(h)
    PROVE  /\ reload' \in [Reloads -> ReloadType] /\ main = "up" /\ reload[h].pc \in {"create", "write"}
           /\ reload'[h].pc \in {"write", "idle"} /\ \A g \in Reloads : g # h => reload'[g] = reload[g]
           /\ UNCHANGED <<still, BConf, ETHKey, GAdminAuth, used>>
<1>0. reload \in [Reloads -> ReloadType] /\ NoReload \in ReloadType /\ BConf \in Conf
  BY StartAssumption DEF TypeOK, ReloadType, NoReload, Defaults, Conf, AnyKey
<1>1. UNCHANGED <<still, BConf, ETHKey, GAdminAuth, used>> /\ main = "up"
  BY DEF ReloadSave, ReloadSaveFails
<1>2. CASE ReloadSaveFails(h)
  <2>1. reload' = [reload EXCEPT ![h] = NoReload] /\ reload[h].pc \in {"create", "write"} /\ NoReload.pc = "idle"
    BY <1>2 DEF ReloadSaveFails, NoReload
  <2> HIDE DEF NoReload
  <2> QED BY <1>0, <1>1, <2>1
<1>3. CASE reload[h].pc = "create" /\ reload' = [reload EXCEPT ![h] = [NoReload EXCEPT !.pc = "write", !.conf = BConf]]
  <2> DEFINE v == [NoReload EXCEPT !.pc = "write", !.conf = BConf]
  <2>1. v \in ReloadType /\ v.pc = "write"
    BY <1>0 DEF ReloadType
  <2>2. reload' = [reload EXCEPT ![h] = v]
    BY <1>3
  <2> HIDE DEF v
  <2> QED BY <1>0, <1>1, <1>3, <2>1, <2>2
<1>4. CASE AtReload(h, "write", "idle")
  BY <1>1, <1>4, ReloadMoves
<1> QED BY <1>2, <1>3, <1>4 DEF ReloadSave

\* Faults are counted up to their bound.
LEMMA FaultBound == ASSUME faults \in 0..MaxFaults, Fault PROVE faults' \in 0..MaxFaults
<1>1. MaxFaults \in Nat
  BY StartAssumption
<1> QED BY <1>1 DEF Fault

\* The configuration file is empty or holds a configuration.
LEMMA SavedType ==
    ASSUME TypeOK, CreateConfig \/ \E c \in Conf : WriteConfig(c)
    PROVE  cfgFile' \in [st : {"none", "cut", "whole"}, conf : Conf] /\ UNCHANGED ks
<1>0. cfgFile \in [st : {"none", "cut", "whole"}, conf : Conf] /\ BConf \in Conf
  BY DEF TypeOK
<1>1. CASE CreateConfig
  BY <1>0, <1>1 DEF CreateConfig
<1>2. CASE \E c \in Conf : WriteConfig(c)
  BY <1>0, <1>2 DEF WriteConfig
<1> QED BY <1>1, <1>2

\* Every step keeps the types.
LEMMA TypeStep == ASSUME TypeOK, KeyedInv, [Next]_vars PROVE TypeOK'
<1> USE StartAssumption
<1>0. /\ reload \in [Reloads -> ReloadType] /\ buy \in [Buyers -> BuyType]
      /\ NoReload \in ReloadType /\ NoBuy \in BuyType /\ Defaults \in Conf /\ NoArgs \in Args
      /\ cfgFile \in [st : {"none", "cut", "whole"}, conf : Conf] /\ BConf \in Conf
  BY DEF TypeOK, ReloadType, BuyType, NoReload, NoBuy, Defaults, Conf, NoArgs, Args, AnyKey
<1>1. CASE ReadConfig
  <2>1. PICK a \in Args : readBasicFile(a) /\ arg' = a
    BY <1>1 DEF ReadConfig
  <2> DEFINE pre == IF cfgFile.st = "whole" THEN cfgFile.conf ELSE Defaults
  <2>2. pre \in Conf
    BY <1>0
  <2>3. (IF a.ip = "" THEN pre.ip ELSE a.ip) \in IPs /\ (IF a.ks = "" THEN pre.ks ELSE a.ks) \in KsFiles
    BY <2>2 DEF Args, Conf
  <2>4. BConf' \in Conf
    BY <2>1, <2>3 DEF readBasicFile, Conf
  <2> QED BY <1>1, <2>1, <2>4 DEF ReadConfig, TypeOK, disk
<1>2. CASE SaveConfig
  <2>1. cfgFile' \in [st : {"none", "cut", "whole"}, conf : Conf] /\ UNCHANGED ks
    BY <1>0, <1>2, SavedType DEF SaveConfig
  <2> QED BY <1>0, <1>2, <2>1 DEF SaveConfig, TypeOK, mem
<1>3. CASE NewAccount
  <2>1. ks' \in [KsFiles -> AnyKey \cup {Cut}]
    BY <1>3 DEF NewAccount, TypeOK
  <2> QED BY <1>3, <2>1 DEF NewAccount, TypeOK, mem
<1>4. CASE copyKeyStore
  <2>1. PICK k \in Keys : made' = made \cup {k} /\ ks' = [ks EXCEPT ![BConf.ks] = k]
    BY <1>4 DEF copyKeyStore
  <2>2. ks' \in [KsFiles -> AnyKey \cup {Cut}] /\ made' \subseteq Keys
    BY <2>1 DEF TypeOK, AnyKey
  <2> QED BY <1>4, <2>2 DEF copyKeyStore, TypeOK, mem
<1>5. CASE readKeyStore
  <2>1. ETHKey' \in Keys /\ GAdminAuth' = ETHKey' /\ used' = used \cup {ETHKey'}
    BY <1>5 DEF readKeyStore
  <2> QED BY <1>5, <2>1 DEF readKeyStore, TypeOK, disk, AnyKey
<1>6. CASE SetupPOD
  BY <1>6 DEF SetupPOD, TypeOK, disk
<1>7. CASE Stop
  <2>1. faults' \in 0..MaxFaults
    BY <1>7, FaultBound DEF Stop, TypeOK
  <2>2. reload' \in [Reloads -> ReloadType] /\ buy' \in [Buyers -> BuyType]
    BY <1>0, <1>7 DEF Stop, FreshMem
  <2> QED BY <1>0, <1>7, <2>1, <2>2 DEF Stop, FreshMem, TypeOK, disk, AnyKey, ReloadType, BuyType
<1>8. CASE StartBob \/ StartAlice \/ Listen
  BY <1>8 DEF StartBob, StartAlice, Listen, TypeOK, disk
<1>9. CASE ListenFails
  <2>1. faults' \in 0..MaxFaults
    BY <1>9, FaultBound DEF ListenFails, TypeOK
  <2> QED BY <1>9, <2>1 DEF ListenFails, TypeOK, disk
<1>10. ASSUME NEW h \in Reloads, ReloadIP(h) PROVE TypeOK'
  <2>1. reload' \in [Reloads -> ReloadType]
    BY <1>10, ReloadMoves DEF ReloadIP
  <2>2. PICK ip \in IPs \cup {BConf.ip} : BConf' = IF AliceNodeStart THEN BConf ELSE [BConf EXCEPT !.ip = ip]
    BY <1>10 DEF ReloadIP
  <2>3. BConf' \in Conf
    BY <1>0, <2>2 DEF Conf
  <2> QED BY <1>10, <2>1, <2>3 DEF ReloadIP, TypeOK, still, disk, ReloadType
<1>11. ASSUME NEW h \in Reloads, ReloadKey(h) PROVE TypeOK'
  <2>1. reload' \in [Reloads -> ReloadType]
    <3>1. ASSUME NEW k \in Keys, NEW f \in KsFiles \cup {""}
          PROVE  [pc |-> "connect", key |-> k, ks |-> f, conf |-> Defaults] \in ReloadType
      BY <1>0 DEF ReloadType, AnyKey
    <3>2. CASE \E k \in Keys : reload' = [reload EXCEPT ![h] = [pc |-> "connect", key |-> k, ks |-> "", conf |-> Defaults]]
      <4>1. PICK k \in Keys : reload' = [reload EXCEPT ![h] = [pc |-> "connect", key |-> k, ks |-> "", conf |-> Defaults]]
        BY <3>2
      <4>2. [pc |-> "connect", key |-> k, ks |-> "", conf |-> Defaults] \in ReloadType
        BY <3>1
      <4> QED BY <1>0, <4>1, <4>2
    <3>3. CASE \E f \in KsFiles : reload' = [reload EXCEPT ![h] =
                    IF ks[f] \in Keys THEN [pc |-> "connect", key |-> ks[f], ks |-> f, conf |-> Defaults] ELSE NoReload]
      <4>1. PICK f \in KsFiles : reload' = [reload EXCEPT ![h] =
                    IF ks[f] \in Keys THEN [pc |-> "connect", key |-> ks[f], ks |-> f, conf |-> Defaults] ELSE NoReload]
        BY <3>3
      <4>2. ks[f] \in Keys => [pc |-> "connect", key |-> ks[f], ks |-> f, conf |-> Defaults] \in ReloadType
        BY <3>1
      <4>3. (IF ks[f] \in Keys THEN [pc |-> "connect", key |-> ks[f], ks |-> f, conf |-> Defaults] ELSE NoReload) \in ReloadType
        BY <1>0, <4>2
      <4> QED BY <1>0, <4>1, <4>3
    <3>4. CASE reload' = [reload EXCEPT ![h].pc = "create"]
      BY <1>0, <3>4 DEF ReloadType
    <3> QED BY <1>11, <3>2, <3>3, <3>4 DEF ReloadKey
  <2> QED BY <1>11, <2>1 DEF ReloadKey, TypeOK, still, disk, ReloadType
<1>12. ASSUME NEW h \in Reloads, ReloadConnect(h) PROVE TypeOK'
  <2>1. reload' \in [Reloads -> ReloadType]
    BY <1>12, ReloadMoves DEF ReloadConnect
  <2>2. GAdminAuth' \in AnyKey
    BY <1>0, <1>12 DEF ReloadConnect, ReloadType
  <2> QED BY <1>12, <2>1, <2>2 DEF ReloadConnect, TypeOK, still, disk, ReloadType
<1>13. ASSUME NEW h \in Reloads, ReloadConnectFails(h) PROVE TypeOK'
  <2>1. faults' \in 0..MaxFaults
    BY <1>13, FaultBound DEF ReloadConnectFails, TypeOK
  <2>2. reload' \in [Reloads -> ReloadType]
    BY <1>0, <1>13 DEF ReloadConnectFails
  <2> QED BY <1>13, <2>1, <2>2 DEF ReloadConnectFails, TypeOK, still, disk, ReloadType
<1>14. ASSUME NEW h \in Reloads, ReloadSet(h) PROVE TypeOK'
  <2>1. reload' \in [Reloads -> ReloadType]
    BY <1>14, ReloadMoves DEF ReloadSet
  <2>2. BConf' \in Conf
    BY <1>0, <1>14 DEF ReloadSet, Conf, ReloadType
  <2>3. reload[h].key \in Keys
    BY <1>14 DEF ReloadSet, AtReload, KeyedInv
  <2> QED BY <1>14, <2>1, <2>2, <2>3, ZenonT(60) DEF ReloadSet, TypeOK, still, disk, ReloadType, AnyKey
<1>15. ASSUME NEW h \in Reloads, ReloadSave(h) PROVE TypeOK'
  <2>1. reload' \in [Reloads -> ReloadType]
    BY <1>15, SaveMoves
  <2>2. cfgFile' \in [st : {"none", "cut", "whole"}, conf : Conf] /\ UNCHANGED ks
    <3>1. reload[h].conf \in Conf
      BY <1>0 DEF ReloadType
    <3> QED BY <1>15, <3>1, SavedType DEF ReloadSave
  <2> QED BY <1>15, <2>1, <2>2 DEF ReloadSave, TypeOK, still, ReloadType
<1>15a. ASSUME NEW h \in Reloads, ReloadSaveFails(h) PROVE TypeOK'
  <2>1. reload' \in [Reloads -> ReloadType]
    BY <1>15a, SaveMoves
  <2>2. cfgFile' \in [st : {"none", "cut", "whole"}, conf : Conf] /\ UNCHANGED ks
    BY <1>0, <1>15a, SavedType DEF ReloadSaveFails, disk
  <2>3. faults' \in 0..MaxFaults
    BY <1>15a, FaultBound DEF ReloadSaveFails, TypeOK
  <2> QED BY <1>15a, <2>1, <2>2, <2>3 DEF ReloadSaveFails, TypeOK, still, ReloadType
<1>16. ASSUME NEW b \in Buyers, Purchase(b) PROVE TypeOK'
  <2>1. ETHKey \in AnyKey /\ NoKey \in AnyKey /\ BobNodeStart \in BOOLEAN
    BY DEF TypeOK, AnyKey
  <2>2. buy' \in [Buyers -> BuyType]
    <3> DEFINE q == BobNodeStart /\ \A h \in Reloads : reload[h].pc \notin {"connect", "set"}
    <3>1. q \in BOOLEAN
      OBVIOUS
    <3> HIDE DEF q
    <3>2. [pc |-> "row", conn |-> ETHKey, row |-> NoKey, quiet |-> q] \in BuyType
      BY <2>1, <3>1 DEF BuyType
    <3>3. CASE buy' = [buy EXCEPT ![b] = [pc |-> "row", conn |-> ETHKey, row |-> NoKey, quiet |-> q]]
      BY <1>0, <3>2, <3>3
    <3>4. CASE buy' = [buy EXCEPT ![b].pc = "program", ![b].row = ETHKey]
      BY <1>0, <2>1, <3>4 DEF BuyType
    <3>5. CASE buy' = [buy EXCEPT ![b] = NoBuy]
      BY <1>0, <3>5
    <3> QED BY <1>16, <3>3, <3>4, <3>5 DEF Purchase, q
  <2> QED BY <1>16, <2>2 DEF Purchase, TypeOK, disk, BuyType
<1>17. CASE UNCHANGED vars
  BY <1>17 DEF vars, mem, disk, TypeOK
<1> QED BY <1>1, <1>2, <1>3, <1>4, <1>5, <1>6, <1>7, <1>8, <1>9, <1>10, <1>11, <1>12, <1>13, <1>14,
           <1>15, <1>15a, <1>16, <1>17 DEF Next

\* Every step that can set a key keeps KeyedInv.
LEMMA KeyedStep == ASSUME TypeOK, KeyedInv, [Next]_vars PROVE KeyedInv'
<1>0. reload \in [Reloads -> ReloadType]
  BY DEF TypeOK, ReloadType
<1>1. CASE UNCHANGED reload
  BY <1>1 DEF KeyedInv
<1>2. CASE Stop
  BY <1>2 DEF Stop, FreshMem, KeyedInv, NoReload
<1>3. ASSUME NEW h \in Reloads, NEW from, NEW to \in {"key", "set", "create", "write", "idle"},
             AtReload(h, from, to), to = "set" => from = "connect"
      PROVE  KeyedInv'
  BY <1>3, ReloadMoves DEF KeyedInv
<1>4. ASSUME NEW h \in Reloads, ReloadKey(h) PROVE KeyedInv'
  <2>1. CASE \E k \in Keys : reload' = [reload EXCEPT ![h] = [pc |-> "connect", key |-> k, ks |-> "", conf |-> Defaults]]
    <3>1. PICK k \in Keys : reload' = [reload EXCEPT ![h] = [pc |-> "connect", key |-> k, ks |-> "", conf |-> Defaults]]
      BY <2>1
    <3>2. [pc |-> "connect", key |-> k, ks |-> "", conf |-> Defaults].key = k
      OBVIOUS
    <3> QED BY <1>0, <3>1, <3>2 DEF KeyedInv
  <2>2. CASE \E f \in KsFiles : reload' = [reload EXCEPT ![h] =
                 IF ks[f] \in Keys THEN [pc |-> "connect", key |-> ks[f], ks |-> f, conf |-> Defaults] ELSE NoReload]
    <3>1. PICK f \in KsFiles : reload' = [reload EXCEPT ![h] =
                 IF ks[f] \in Keys THEN [pc |-> "connect", key |-> ks[f], ks |-> f, conf |-> Defaults] ELSE NoReload]
      BY <2>2
    <3>2. NoReload.pc = "idle"
      BY DEF NoReload
    <3> QED BY <1>0, <3>1, <3>2 DEF KeyedInv
  <2>3. CASE reload' = [reload EXCEPT ![h].pc = "create"]
    BY <1>0, <2>3 DEF KeyedInv, ReloadType
  <2> QED BY <1>4, <2>1, <2>2, <2>3 DEF ReloadKey
<1>5. ASSUME NEW h \in Reloads, ReloadConnectFails(h) PROVE KeyedInv'
  BY <1>0, <1>5 DEF ReloadConnectFails, KeyedInv, NoReload
<1>6. ASSUME NEW h \in Reloads, ReloadSave(h) \/ ReloadSaveFails(h) PROVE KeyedInv'
  BY <1>6, SaveMoves DEF KeyedInv
<1> QED
  BY <1>1, <1>2, <1>3, <1>4, <1>5, <1>6
     DEF Next, vars, mem, ReadConfig, SaveConfig, NewAccount, copyKeyStore, readKeyStore, SetupPOD, StartBob,
         StartAlice, Listen, ListenFails, ReloadIP, ReloadConnect, ReloadSet, Purchase

\* What a start runs with: only ReadConfig begins one, and only a save changes the file.
LEMMA SavedStep == ASSUME TypeOK, SavedInv, [Next]_vars PROVE SavedInv'
<1>0. cfgFile \in [st : {"none", "cut", "whole"}, conf : Conf] /\ Defaults \in Conf
  BY StartAssumption DEF TypeOK, Defaults, Conf
<1>1. CASE ReadConfig
  <2>1. PICK a \in Args : readBasicFile(a) /\ arg' = a /\ UNCHANGED cfgFile
    BY <1>1 DEF ReadConfig, disk
  <2>2. ASSUME arg' = NoArgs PROVE BConf' = cfgFile'.conf
    <3>1. a.ip = "" /\ a.ks = ""
      <4>1. a = NoArgs
        BY <2>1, <2>2
      <4> QED BY <4>1 DEF NoArgs
    <3>2. cfgFile.st = "whole" \/ cfgFile.conf = Defaults
      BY <1>0, <2>1 DEF readBasicFile, SavedInv
    <3>3. BConf' = [ip |-> cfgFile.conf.ip, ks |-> cfgFile.conf.ks]
      BY <2>1, <3>1, <3>2 DEF readBasicFile
    <3> QED BY <1>0, <2>1, <3>3 DEF Conf
  <2> QED BY <2>1, <2>2 DEF SavedInv, StartsAsSaved
<1>2. CASE SaveConfig
  BY <1>0, <1>2 DEF SaveConfig, CreateConfig, WriteConfig, SavedInv, StartsAsSaved
<1>3. ASSUME NEW h \in Reloads, ReloadSave(h) \/ ReloadSaveFails(h) PROVE SavedInv'
  BY <1>0, <1>3 DEF ReloadSave, ReloadSaveFails, disk, AtReload, CreateConfig, WriteConfig, SavedInv, StartsAsSaved, still
<1>4. CASE main' # "create" /\ UNCHANGED cfgFile
  BY <1>4 DEF SavedInv, StartsAsSaved
<1>5. CASE UNCHANGED <<main, arg, BConf, cfgFile>>
  BY <1>5 DEF SavedInv, StartsAsSaved
<1>6. ASSUME NEW h \in Reloads, ReloadIP(h) \/ ReloadSet(h) PROVE main' # "create" /\ UNCHANGED cfgFile
  BY <1>6 DEF ReloadIP, ReloadSet, AtReload, still, disk
<1>7. CASE NewAccount \/ copyKeyStore \/ readKeyStore \/ SetupPOD \/ Stop
  BY <1>4, <1>7 DEF NewAccount, copyKeyStore, readKeyStore, SetupPOD, Stop, disk
<1> QED
  BY <1>1, <1>2, <1>3, <1>4, <1>5, <1>6, <1>7
     DEF Next, vars, mem, disk, still, StartBob, StartAlice, Listen, ListenFails, ReloadKey, ReloadConnect,
         ReloadConnectFails, Purchase

\* A key is never written over: a new account goes to a file that was not there.
LEMMA KeptStep == ASSUME TypeOK, KeptInv, [Next]_vars PROVE KeptInv'
<1>0. ks \in [KsFiles -> AnyKey \cup {Cut}] /\ BConf.ks \in KsFiles /\ made \subseteq Keys
  BY DEF TypeOK, Conf
<1>k. NoKey \notin Keys /\ Cut \notin Keys
  BY StartAssumption
<1>1. CASE NewAccount
  <2>1. ks' = [ks EXCEPT ![BConf.ks] = Cut] /\ UNCHANGED <<made, BConf>> /\ ks[BConf.ks] = NoKey
    BY <1>1 DEF NewAccount, KeystoreMissing, mem
  <2>2. \A k \in made : \E f \in KsFiles : ks'[f] = k
    BY <1>0, <1>k, <2>1 DEF KeptInv
  <2> QED BY <1>0, <2>1, <2>2 DEF KeptInv
<1>2. CASE copyKeyStore
  <2>1. PICK k \in Keys : made' = made \cup {k} /\ ks' = [ks EXCEPT ![BConf.ks] = k]
    BY <1>2 DEF copyKeyStore
  <2>2. ks[BConf.ks] = Cut /\ main' # "copy"
    BY <1>2 DEF copyKeyStore, KeptInv
  <2>3. \A j \in made' : \E f \in KsFiles : ks'[f] = j
    BY <1>0, <1>k, <2>1, <2>2 DEF KeptInv
  <2> QED BY <2>2, <2>3 DEF KeptInv
<1>3. CASE UNCHANGED <<ks, made>> /\ main' # "copy"
  BY <1>3 DEF KeptInv
<1>4. CASE UNCHANGED <<ks, made, main, BConf>>
  BY <1>4 DEF KeptInv
<1>5. ASSUME NEW h \in Reloads, ReloadIP(h) \/ ReloadSet(h) PROVE UNCHANGED <<ks, made>> /\ main' # "copy"
  BY <1>5 DEF ReloadIP, ReloadSet, AtReload, still, disk
<1>6. CASE ReadConfig \/ SaveConfig \/ readKeyStore \/ SetupPOD \/ Stop
  BY <1>3, <1>6 DEF ReadConfig, SaveConfig, CreateConfig, WriteConfig, readKeyStore, SetupPOD, Stop, disk
<1>7. ASSUME NEW h \in Reloads, ReloadSave(h) \/ ReloadSaveFails(h) PROVE UNCHANGED <<ks, made, main, BConf>>
  BY <1>7 DEF ReloadSave, ReloadSaveFails, disk, still, CreateConfig, WriteConfig
<1> QED
  BY <1>1, <1>2, <1>3, <1>4, <1>5, <1>6, <1>7
     DEF Next, vars, mem, disk, still, StartBob, StartAlice, Listen, ListenFails, ReloadKey, ReloadConnect,
         ReloadConnectFails, Purchase

\* Handlers run only while the node is up, and are gone when it stops.
LEMMA DownStep == ASSUME TypeOK, DownInv, [Next]_vars PROVE DownInv'
<1>1. CASE main' = "up"
  BY <1>1 DEF DownInv
<1>2. CASE Stop
  BY <1>2 DEF Stop, FreshMem, DownInv, NoReload, NoBuy
<1>3. CASE UNCHANGED <<main, reload, buy>>
  BY <1>3 DEF DownInv
<1>4. CASE ReadConfig \/ SaveConfig \/ NewAccount \/ copyKeyStore \/ readKeyStore
  <2>1. main # "up" /\ UNCHANGED <<reload, buy>>
    BY <1>4 DEF ReadConfig, SaveConfig, NewAccount, copyKeyStore, readKeyStore, mem
  <2> QED BY <2>1 DEF DownInv
<1> QED
  BY <1>1, <1>2, <1>3, <1>4
     DEF Next, vars, mem, still, SetupPOD, StartBob, StartAlice, Listen, ListenFails, ReloadIP, ReloadKey, AtReload,
         ReloadConnect, ReloadConnectFails, ReloadSet, ReloadSave, ReloadSaveFails, Purchase

\* Once the buyer's side has started no reload gets beyond its check.
LEMMA ReloadsStay ==
    ASSUME TypeOK, BobNodeStart, \A h \in Reloads : reload[h].pc \notin {"connect", "set"},
           [Next]_vars, main' = "up", main = "up"
    PROVE  /\ BobNodeStart' /\ UNCHANGED <<ETHKey, GAdminAuth>>
           /\ \A h \in Reloads : reload'[h].pc \notin {"connect", "set"}
<1>0. reload \in [Reloads -> ReloadType]
  BY DEF TypeOK, ReloadType
<1>1. ASSUME NEW h \in Reloads, NEW from, NEW to \in {"key", "create", "write", "idle"},
             AtReload(h, from, to)
      PROVE  \A g \in Reloads : reload'[g].pc \notin {"connect", "set"}
  BY <1>1, ReloadMoves
<1>2. ASSUME NEW h \in Reloads, ReloadKey(h) PROVE \A g \in Reloads : reload'[g].pc \notin {"connect", "set"}
  <2>1. reload' = [reload EXCEPT ![h].pc = "create"]
    BY <1>2 DEF ReloadKey, KeyMayChange
  <2> QED BY <1>0, <2>1 DEF ReloadType
<1>3. ASSUME NEW h \in Reloads PROVE ~ReloadConnect(h) /\ ~ReloadConnectFails(h) /\ ~ReloadSet(h)
  BY DEF ReloadConnect, ReloadConnectFails, ReloadSet, AtReload
<1>4. ~ReadConfig /\ ~SaveConfig /\ ~NewAccount /\ ~copyKeyStore /\ ~readKeyStore /\ ~SetupPOD /\ ~Stop
  BY DEF ReadConfig, SaveConfig, NewAccount, copyKeyStore, readKeyStore, SetupPOD, Stop
<1>5. ASSUME NEW h \in Reloads, ReloadIP(h) \/ ReloadSave(h) \/ ReloadSaveFails(h) \/ ReloadKey(h)
      PROVE  BobNodeStart' /\ UNCHANGED <<ETHKey, GAdminAuth>>
  BY <1>5 DEF ReloadIP, ReloadSave, ReloadSaveFails, ReloadKey, still
<1>6. ASSUME NEW h \in Reloads, ReloadSave(h) \/ ReloadSaveFails(h)
      PROVE  \A g \in Reloads : reload'[g].pc \notin {"connect", "set"}
  BY <1>6, SaveMoves
<1> QED
  BY <1>1, <1>2, <1>3, <1>4, <1>5, <1>6
     DEF Next, vars, mem, StartBob, StartAlice, Listen, ListenFails, ReloadIP, Purchase

\* A purchase that began quietly stays with its key.
LEMMA QuietStep == ASSUME TypeOK, DownInv, QuietInv, DownInv', [Next]_vars PROVE QuietInv'
<1>0. buy \in [Buyers -> BuyType]
  BY DEF TypeOK, BuyType
<1> SUFFICES ASSUME NEW b \in Buyers, buy'[b].quiet
             PROVE  /\ BobNodeStart' /\ \A h \in Reloads : reload'[h].pc \notin {"connect", "set"}
                    /\ buy'[b].conn = ETHKey'
                    /\ buy'[b].pc = "program" => buy'[b].row = ETHKey'
  BY DEF QuietInv
<1>1. main' = "up"
  BY DEF DownInv
<1>2. ASSUME UNCHANGED buy
      PROVE  /\ BobNodeStart' /\ \A h \in Reloads : reload'[h].pc \notin {"connect", "set"}
             /\ buy'[b].conn = ETHKey'
             /\ buy'[b].pc = "program" => buy'[b].row = ETHKey'
  <2>1. main = "up"
    BY <1>2 DEF DownInv
  <2> QED BY <1>1, <1>2, <2>1, ReloadsStay DEF QuietInv
<1>3. ASSUME NEW c \in Buyers, Purchase(c)
      PROVE  /\ BobNodeStart' /\ \A h \in Reloads : reload'[h].pc \notin {"connect", "set"}
             /\ buy'[b].conn = ETHKey'
             /\ buy'[b].pc = "program" => buy'[b].row = ETHKey'
  <2>1. UNCHANGED <<BobNodeStart, reload, ETHKey>>
    BY <1>3 DEF Purchase
  <2> DEFINE q == BobNodeStart /\ \A h \in Reloads : reload[h].pc \notin {"connect", "set"}
  <2>2. CASE buy' = [buy EXCEPT ![c] = [pc |-> "row", conn |-> ETHKey, row |-> NoKey, quiet |-> q]]
    <3>1. CASE b = c
      <4> HIDE DEF q
      <4>1. buy'[b].quiet = q /\ buy'[b].conn = ETHKey /\ buy'[b].pc = "row"
        BY <1>0, <2>2, <3>1
      <4> QED BY <2>1, <4>1 DEF q
    <3>2. CASE b # c
      BY <1>0, <2>1, <2>2, <3>2 DEF QuietInv
    <3> QED BY <3>1, <3>2
  <2>3. CASE buy' = [buy EXCEPT ![c].pc = "program", ![c].row = ETHKey]
    <3>1. CASE b = c
      <4>1. buy'[b].quiet = buy[b].quiet /\ buy'[b].conn = buy[b].conn /\ buy'[b].row = ETHKey
        BY <1>0, <2>3, <3>1 DEF BuyType
      <4> QED BY <2>1, <4>1 DEF QuietInv
    <3>2. CASE b # c
      BY <1>0, <2>1, <2>3, <3>2 DEF QuietInv
    <3> QED BY <3>1, <3>2
  <2>4. CASE buy' = [buy EXCEPT ![c] = NoBuy]
    <3>1. ~NoBuy.quiet
      BY DEF NoBuy
    <3>2. b # c
      BY <1>0, <2>4, <3>1
    <3> QED BY <1>0, <2>1, <2>4, <3>2 DEF QuietInv
  <2> QED BY <1>3, <2>2, <2>3, <2>4 DEF Purchase
<1>4. ~Stop
  BY <1>1 DEF Stop
<1> QED
  BY <1>2, <1>3, <1>4
     DEF Next, vars, mem, still, ReadConfig, SaveConfig, NewAccount, copyKeyStore, readKeyStore, SetupPOD, StartBob,
         StartAlice, Listen, ListenFails, ReloadIP, ReloadKey, ReloadConnect, ReloadConnectFails, ReloadSet,
         ReloadSave, ReloadSaveFails

\* One reload: between the two writes of a key the handler is at "set".
LEMMA OneKeyStep == ASSUME TypeOK, DownInv, OneKeyInv, [Next]_vars PROVE OneKeyInv'
<1>0. reload \in [Reloads -> ReloadType]
  BY DEF TypeOK, ReloadType
<1> SUFFICES ASSUME OneReload
             PROVE  /\ (\A h \in Reloads : reload'[h].pc # "set") => GAdminAuth' = ETHKey'
                    /\ \A h \in Reloads : reload'[h].pc = "set" => GAdminAuth' = reload'[h].key
  BY DEF OneKeyInv, OneReload
<1> DEFINE Goal == /\ (\A h \in Reloads : reload'[h].pc # "set") => GAdminAuth' = ETHKey'
                   /\ \A h \in Reloads : reload'[h].pc = "set" => GAdminAuth' = reload'[h].key
<1>1. CASE UNCHANGED <<reload, ETHKey, GAdminAuth>>
  BY <1>1 DEF OneKeyInv
<1>2. CASE Stop
  BY <1>2 DEF Stop, FreshMem, NoReload
<1>3. CASE readKeyStore
  <2>1. \A h \in Reloads : reload[h].pc = "idle"
    BY <1>3 DEF readKeyStore, DownInv
  <2> QED BY <1>3, <2>1 DEF readKeyStore
<1>4. ASSUME NEW h \in Reloads, NEW from, NEW to \in {"key", "create", "write", "idle"}, from # "set",
             AtReload(h, from, to), UNCHANGED <<ETHKey, GAdminAuth>>
      PROVE  Goal
  BY <1>4, ReloadMoves DEF OneKeyInv, OneReload
<1>5. ASSUME NEW h \in Reloads, ReloadConnect(h) PROVE Goal
  BY <1>5, ReloadMoves DEF ReloadConnect, OneReload
<1>6. ASSUME NEW h \in Reloads, ReloadSet(h) PROVE Goal
  BY <1>6, ReloadMoves DEF ReloadSet, OneReload, OneKeyInv
<1>7. ASSUME NEW h \in Reloads, ReloadKey(h) PROVE Goal
  <2>1. UNCHANGED <<ETHKey, GAdminAuth>> /\ reload[h].pc = "key"
    BY <1>7 DEF ReloadKey
  <2>2. reload'[h].pc # "set"
    <3>1. CASE \E k \in Keys : reload' = [reload EXCEPT ![h] = [pc |-> "connect", key |-> k, ks |-> "", conf |-> Defaults]]
      <4>1. PICK k \in Keys : reload' = [reload EXCEPT ![h] = [pc |-> "connect", key |-> k, ks |-> "", conf |-> Defaults]]
        BY <3>1
      <4> QED BY <1>0, <4>1
    <3>2. CASE \E f \in KsFiles : reload' = [reload EXCEPT ![h] =
                   IF ks[f] \in Keys THEN [pc |-> "connect", key |-> ks[f], ks |-> f, conf |-> Defaults] ELSE NoReload]
      <4>1. PICK f \in KsFiles : reload' = [reload EXCEPT ![h] =
                   IF ks[f] \in Keys THEN [pc |-> "connect", key |-> ks[f], ks |-> f, conf |-> Defaults] ELSE NoReload]
        BY <3>2
      <4>2. NoReload.pc = "idle"
        BY DEF NoReload
      <4> QED BY <1>0, <4>1, <4>2
    <3>3. CASE reload' = [reload EXCEPT ![h].pc = "create"]
      BY <1>0, <3>3 DEF ReloadType
    <3> QED BY <1>7, <3>1, <3>2, <3>3 DEF ReloadKey
  <2> QED BY <2>1, <2>2 DEF OneReload, OneKeyInv
<1>8. ASSUME NEW h \in Reloads, ReloadConnectFails(h) PROVE Goal
  <2>1. UNCHANGED <<ETHKey, GAdminAuth>> /\ reload[h].pc = "connect" /\ reload'[h].pc = "idle"
    BY <1>0, <1>8 DEF ReloadConnectFails, NoReload
  <2> QED BY <2>1 DEF OneReload, OneKeyInv
<1>9. ASSUME NEW h \in Reloads, ReloadIP(h) PROVE Goal
  BY <1>4, <1>9 DEF ReloadIP
<1>10. ASSUME NEW h \in Reloads, ReloadSave(h) \/ ReloadSaveFails(h) PROVE Goal
  BY <1>10, SaveMoves DEF OneReload, OneKeyInv
<1> QED
  BY <1>1, <1>2, <1>3, <1>5, <1>6, <1>7, <1>8, <1>9, <1>10
     DEF Next, vars, mem, ReadConfig, SaveConfig, NewAccount, copyKeyStore, SetupPOD, StartBob, StartAlice,
         Listen, ListenFails, Purchase

-----------------------------------------------------------------------------
\* A node that was never started has nothing saved, no handler and no key.
LEMMA StartInit == ASSUME Init PROVE StartInv
<1>1. NoReload \in ReloadType /\ NoBuy \in BuyType /\ Defaults \in Conf /\ NoArgs \in Args
  BY StartAssumption DEF ReloadType, BuyType, NoReload, NoBuy, Defaults, Conf, NoArgs, Args, AnyKey
<1>2. 0 \in 0..MaxFaults
  <2>1. MaxFaults \in Nat
    BY StartAssumption
  <2> QED BY <2>1
<1>3. cfgFile \in [st : {"none", "cut", "whole"}, conf : Conf]
  BY <1>1 DEF Init
<1>4. TypeOK
  BY <1>1, <1>2, <1>3, ZenonT(60) DEF Init, TypeOK, AnyKey, ReloadType, BuyType
<1>5. KeyedInv /\ DownInv /\ QuietInv /\ OneKeyInv
  BY DEF Init, KeyedInv, DownInv, QuietInv, OneKeyInv, NoReload, NoBuy
<1>6. SavedInv /\ KeptInv
  BY DEF Init, SavedInv, StartsAsSaved, KeptInv
<1> QED BY <1>4, <1>5, <1>6 DEF StartInv

\* Init establishes StartInv and every step of the node keeps it, whatever faults,
\* stops, reloads and purchases happen and in whatever order.
THEOREM StartInvariant == Spec => []StartInv
<1>1. Init => StartInv
  BY StartInit
<1>2. StartInv /\ [Next]_vars => StartInv'
  BY TypeStep, KeyedStep, SavedStep, KeptStep, DownStep, QuietStep, OneKeyStep DEF StartInv
<1> QED BY <1>1, <1>2, PTL DEF Spec

\* The variables keep their types: readBasicFile always yields an address and a
\* keystore file, and what becomes ETHKey in readKeyStore or a reload is a key.
THEOREM StartTypes == Spec => []TypeOK
<1>1. StartInv => TypeOK
  BY DEF StartInv
<1> QED BY <1>1, StartInvariant, PTL

\* readBasicFile: a start without arguments runs with what saveBasicConfig wrote last,
\* wherever a save was cut short.
THEOREM SavedIsRead == Spec => []StartsAsSaved
<1>1. StartInv => StartsAsSaved
  BY DEF StartInv, SavedInv
<1> QED BY <1>1, StartInvariant, PTL

\* readKeyStore and copyKeyStore: an account the node made is never written over.
THEOREM AccountsAreKept == Spec => []AccountIsKept
<1>1. StartInv => AccountIsKept
  BY DEF StartInv, KeptInv, AccountIsKept
<1> QED BY <1>1, StartInvariant, PTL

\* ReLoadConfigAPIHandler beside BobPurchaseDataAPIHandler: a purchase that begins with
\* the buyer's side started, and no reload beyond its check, keeps one key.
THEOREM PurchaseOneKey == Spec => []TradeOneKey
<1>1. StartInv => TradeOneKey
  BY DEF StartInv, QuietInv, OneKeyInv, TradeOneKey
<1> QED BY <1>1, StartInvariant, PTL
=============================================================================
