-------------------------- MODULE PodPublishProofs --------------------------
(***************************************************************************)
(* PodPublish for any data files, requests, parameters and crashes.  The   *)
(* inductive invariant follows a folder: a request fills its timestamp     *)
(* folder step by step and only a complete one gets the final name; what a *)
(* publication writes back is what the folder said before; and what a      *)
(* buyer's request has read of it stays good after it was read.            *)
(***************************************************************************)
EXTENDS PodPublish, TLAPS

ArgType == [root : Roots \cup {""}, mode : DataModes \cup {"other", ""}, subModes : Seq(SubModes),
            price : Nat, ot : BOOLEAN, extra : ExtraType]
FolderType == [there : BOOLEAN, by : Reqs \cup {""}, mode : DataModes \cup {""}, root : Roots \cup {""},
               extra : ExtraType]

PublishType ==
    /\ pc \in [Reqs -> Labels]
    /\ arg \in [Reqs -> ArgType]
    /\ folder \in [Names -> FolderType]
    /\ stat \in [Roots -> {"none", "ok", "canceling", "canceled"}]
    /\ pending \subseteq {"Publish", "UnPublish", "WithdrawA"} \X Roots
    /\ \A s \in sold : s.root \in Roots /\ s.price \in Nat
    /\ crashes \in 0..MaxCrashes

\* extra says what the request h asked for.
Says(extra, h) == extra.price = arg[h].price /\ extra.subModes = arg[h].subModes

\* The parameters of h passed the check, and the folder f has its bulletin.
Checked(h) == arg[h].mode \in DataModes /\ SubModesOK(arg[h].mode, arg[h].subModes)
Bulletin(f, h) == f.there /\ f.by = h /\ f.mode = arg[h].mode /\ f.root = arg[h].root

\* The timestamp folder of a request, step by step.
FillOK(h) ==
    /\ pc[h] = "init_raw" => /\ arg[h].root \in Roots /\ SubModesOK(arg[h].mode, arg[h].subModes)
                             /\ folder[h].there
    /\ pc[h] \in {"init_bulletin", "init_extra"} =>
            arg[h].root \in Roots /\ Checked(h) /\ Bulletin(folder[h], h)
    /\ pc[h] = "init_extra" => folder[h].extra.ok /\ Says(folder[h].extra, h)

\* What a publication has read and will write back.
BackOK(h) ==
    pc[h] \in {"publish_send", "publish_cut", "publish_write"} =>
        /\ arg[h].root \in Roots /\ folder[arg[h].root].there
        /\ arg[h].extra.ok /\ Says(arg[h].extra, folder[arg[h].root].by)

\* What a buyer's request has chosen has a program and was offered.
Chosen(h) == [mode |-> arg[h].mode, subMode |-> arg[h].subModes[1], ot |-> arg[h].ot]
SaleOK(h) ==
    pc[h] \in {"sale_status", "sale_accept"} =>
        arg[h].root \in Roots /\ AliceTxFor(Chosen(h)) # "" /\ Offered(arg[h].root, Chosen(h), arg[h].price)

\* A request at each of its steps; one that closes names a data file.
ReqOK(h) == FillOK(h) /\ BackOK(h) /\ SaleOK(h) /\ (pc[h] = "close_send" => arg[h].root \in Roots)

\* A publication that has cut extra.json and not written it back.
Writers == {"publish_write", "publish_failed"}

\* A folder under its final name, whatever is being written.
FinalOK(r) ==
    folder[r].there =>
        /\ folder[r].by \in Reqs /\ pc[folder[r].by] # "idle" /\ Checked(folder[r].by)
        /\ folder[r].root = r /\ folder[r].mode = arg[folder[r].by].mode
        /\ Says(folder[r].extra, folder[r].by)
        /\ ~folder[r].extra.ok => crashes > 0 \/ \E g \in Reqs : pc[g] \in Writers /\ arg[g].root = r

PublishInv ==
    /\ PublishType
    /\ \A h \in Reqs : ReqOK(h)
    /\ \A r \in Roots : FinalOK(r)
    /\ SoldIsServed

-----------------------------------------------------------------------------
(***************************************************************************)
(* What a step of one request leaves alone.                                *)
(***************************************************************************)
\* Only request h moves, and no request that has begun gets other parameters.
OnlyMoves(h) ==
    /\ \A g \in Reqs : g # h => pc'[g] = pc[g] /\ arg'[g] = arg[g]
    /\ pc'[h] # "idle" /\ (pc[h] # "idle" => arg'[h] = arg[h])

\* The folders of the others stay, and so does whose a final folder is.
OnlyFills(h) ==
    /\ \A g \in Reqs : g # h => folder'[g] = folder[g]
    /\ \A r \in Roots : folder[r].there => folder'[r].there /\ folder'[r].by = folder[r].by

\* Nothing is sold, or what is sold may be.
SoldKept == sold' = sold \/ SoldIsServed'

\* What was offered stays offered: whose a folder is does not change, nor do the
\* parameters of the request that made it.
LEMMA OfferedStays ==
    ASSUME PublishInv, NEW h \in Reqs, OnlyMoves(h), OnlyFills(h), NEW r \in Roots, NEW p, NEW c, Offered(r, p, c)
    PROVE  Offered(r, p, c)'
<1>1. folder[r].there /\ folder[r].by \in Reqs /\ pc[folder[r].by] # "idle"
  BY DEF Offered, PublishInv, FinalOK
<1>2. folder'[r].there /\ folder'[r].by = folder[r].by /\ arg'[folder[r].by] = arg[folder[r].by]
  BY <1>1 DEF OnlyMoves, OnlyFills
<1> QED BY <1>2 DEF Offered

\* The other requests are as they were.
LEMMA OthersStay ==
    ASSUME PublishInv, PublishType', NEW h \in Reqs, OnlyMoves(h), OnlyFills(h), ReqOK(h)',
           \A r \in Roots : FinalOK(r)', SoldKept
    PROVE  PublishInv'
<1>1. ASSUME NEW g \in Reqs, g # h PROVE ReqOK(g)'
  <2>1. pc'[g] = pc[g] /\ arg'[g] = arg[g] /\ folder'[g] = folder[g] /\ ReqOK(g)
    BY <1>1 DEF OnlyMoves, OnlyFills, PublishInv
  <2>2. FillOK(g)'
    BY <2>1 DEF ReqOK, FillOK, Checked, Bulletin, Says
  <2>3. BackOK(g)'
    <3> SUFFICES ASSUME pc[g] \in {"publish_send", "publish_cut", "publish_write"}
                 PROVE  /\ arg[g].root \in Roots /\ folder'[arg[g].root].there
                        /\ arg[g].extra.ok /\ Says(arg[g].extra, folder[arg[g].root].by)'
      BY <2>1 DEF BackOK, Says, OnlyFills, ReqOK
    <3>1. PICK r \in Roots : /\ r = arg[g].root /\ folder[r].there
                             /\ arg[g].extra.ok /\ Says(arg[g].extra, folder[r].by)
      BY <2>1 DEF ReqOK, BackOK
    <3>2. folder[r].by \in Reqs /\ pc[folder[r].by] # "idle"
      BY <3>1 DEF PublishInv, FinalOK
    <3>3. arg'[folder[r].by] = arg[folder[r].by]
      BY <3>2 DEF OnlyMoves
    <3>4. folder'[r].there /\ folder'[r].by = folder[r].by
      BY <3>1 DEF OnlyFills
    <3>5. Says(arg[g].extra, folder[arg[g].root].by)'
      BY <2>1, <3>1, <3>3, <3>4 DEF Says
    <3> QED BY <3>1, <3>4, <3>5
  <2>4. SaleOK(g)'
    <3> SUFFICES ASSUME pc[g] \in {"sale_status", "sale_accept"} PROVE SaleOK(g)'
      BY <2>1 DEF SaleOK
    <3>1. arg[g].root \in Roots /\ AliceTxFor(Chosen(g)) # "" /\ Offered(arg[g].root, Chosen(g), arg[g].price)
      BY <2>1 DEF ReqOK, SaleOK
    <3>2. PICK r, p, c : r \in Roots /\ r = arg[g].root /\ p = Chosen(g) /\ c = arg[g].price
      BY <3>1
    <3>3. Offered(r, p, c)
      BY <3>1, <3>2
    <3>4. Offered(r, p, c)'
      BY <3>2, <3>3, OfferedStays
    <3>5. Chosen(g)' = p /\ arg'[g].root = r /\ arg'[g].price = c
      BY <2>1, <3>2 DEF Chosen
    <3> QED BY <3>1, <3>2, <3>4, <3>5 DEF SaleOK, Offered
  <2>5. (pc[g] = "close_send" => arg[g].root \in Roots)'
    BY <2>1 DEF ReqOK
  <2> QED BY <2>2, <2>3, <2>4, <2>5 DEF ReqOK
<1>2. SoldIsServed'
  <2> SUFFICES ASSUME sold' = sold PROVE SoldIsServed'
    BY DEF SoldKept
  <2> SUFFICES ASSUME NEW x \in sold PROVE AliceTxFor(x.params) # "" /\ Offered(x.root, x.params, x.price)'
    BY DEF SoldIsServed, Offered
  <2>1. x.root \in Roots /\ AliceTxFor(x.params) # "" /\ Offered(x.root, x.params, x.price)
    BY DEF PublishInv, PublishType, SoldIsServed
  <2>2. PICK r, p, c : r \in Roots /\ r = x.root /\ p = x.params /\ c = x.price
    BY <2>1
  <2>3. Offered(r, p, c)
    BY <2>1, <2>2
  <2>4. Offered(r, p, c)'
    BY <2>2, <2>3, OfferedStays
  <2> QED BY <2>1, <2>2, <2>4 DEF Offered
<1> QED BY <1>1, <1>2 DEF PublishInv

\* A final folder that is not touched stays as good as it was.
LEMMA FinalStays ==
    ASSUME PublishInv, NEW h \in Reqs, OnlyMoves(h), crashes' = crashes, pc[h] # "publish_write", pc[h] # "publish_failed",
           NEW r \in Roots, folder'[r] = folder[r]
    PROVE  FinalOK(r)'
<1> SUFFICES ASSUME folder[r].there PROVE FinalOK(r)'
  BY DEF FinalOK
<1>1. FinalOK(r) /\ folder[r].by \in Reqs /\ pc[folder[r].by] # "idle"
  BY DEF PublishInv, FinalOK
<1>2. arg'[folder[r].by] = arg[folder[r].by] /\ pc'[folder[r].by] # "idle"
  BY <1>1 DEF OnlyMoves
<1>3. \A g \in Reqs : pc[g] \in Writers => pc'[g] = pc[g] /\ arg'[g] = arg[g]
  BY DEF OnlyMoves, Writers
<1> QED BY <1>1, <1>2, <1>3 DEF FinalOK, Checked, Says

\* A step that touches no folder.
LEMMA NoFolderStep ==
    ASSUME PublishInv, PublishType', NEW h \in Reqs, OnlyMoves(h), UNCHANGED <<folder, crashes>>,
           pc[h] # "publish_write", pc[h] # "publish_failed", ReqOK(h)', SoldKept
    PROVE  PublishInv'
<1>1. OnlyFills(h)
  BY DEF OnlyFills
<1>2. \A r \in Roots : FinalOK(r)'
  BY FinalStays
<1> QED BY <1>1, <1>2, OthersStay

\* A handler that has returned.
LEMMA DoneOK == ASSUME NEW h \in Reqs, pc'[h] \in {"done", "publish_failed"} PROVE ReqOK(h)'
BY DEF ReqOK, FillOK, BackOK, SaleOK

\* What a step of h does to pc and arg, given the label it goes to.
LEMMA Moved ==
    ASSUME PublishType, NEW h \in Reqs, NEW l \in Labels, Goto(h, l), l # "idle",
           \/ UNCHANGED arg
           \/ pc[h] = "idle" /\ \E x \in ArgType : arg' = [arg EXCEPT ![h] = x]
    PROVE  pc' \in [Reqs -> Labels] /\ pc'[h] = l /\ arg' \in [Reqs -> ArgType] /\ OnlyMoves(h)
<1>0. pc \in [Reqs -> Labels] /\ arg \in [Reqs -> ArgType] /\ pc' = [pc EXCEPT ![h] = l]
  BY DEF PublishType, Goto
<1>1. pc' \in [Reqs -> Labels] /\ pc'[h] = l /\ \A g \in Reqs : g # h => pc'[g] = pc[g]
  BY <1>0
<1>2. CASE UNCHANGED arg
  BY <1>0, <1>1, <1>2 DEF OnlyMoves
<1>3. CASE pc[h] = "idle" /\ \E x \in ArgType : arg' = [arg EXCEPT ![h] = x]
  BY <1>0, <1>1, <1>3 DEF OnlyMoves
<1> QED BY <1>2, <1>3

\* The empty parameters and the empty folder.
LEMMA Empty == NoExtra \in ExtraType /\ NoArg \in ArgType /\ NoFolder \in FolderType
<1>1. << >> \in Seq(SubModes)
  OBVIOUS
<1>2. NoExtra \in ExtraType
  BY <1>1 DEF NoExtra, ExtraType
<1> QED BY <1>1, <1>2 DEF NoArg, ArgType, NoFolder, FolderType

\* The folder of a request is not one of a data file.
LEMMA Apart ==
    /\ \A h \in Reqs : h \in Names /\ h \notin Roots
    /\ \A r \in Roots : r \in Names /\ r \notin Reqs
BY PublishAssumption DEF Names

-----------------------------------------------------------------------------
\* InitPublish: the folder has the clock's name, so that it is no one else's.
LEMMA InitPublishStep == ASSUME PublishInv, NEW h \in Reqs, InitPublish(h) PROVE PublishInv'
<1>0. PublishType /\ pc[h] = "idle" /\ UNCHANGED <<stat, pending, sold, crashes>>
  BY DEF PublishInv, InitPublish, chain
<1>1. PICK r \in Roots, mode \in ModeNames, sl \in SubModeLists, p \in Prices :
            /\ arg' = [arg EXCEPT ![h] = [NoArg EXCEPT !.root = r, !.mode = mode, !.subModes = sl, !.price = p]]
            /\ IF SubModesOK(mode, sl)
               THEN /\ folder' = savePublishRawFile(h)
                    /\ Goto(h, "init_raw")
               ELSE Goto(h, "done") /\ UNCHANGED folder
  BY DEF InitPublish
<1> DEFINE x == [NoArg EXCEPT !.root = r, !.mode = mode, !.subModes = sl, !.price = p]
<1>2. mode \in DataModes \cup {"other", ""} /\ sl \in Seq(SubModes) /\ p \in Nat
  BY PublishAssumption
<1>3. x \in ArgType /\ x.root = r /\ x.mode = mode /\ x.subModes = sl
  BY <1>2, Empty DEF ArgType
<1> HIDE DEF x
<1>4. arg' = [arg EXCEPT ![h] = x] /\ arg'[h] = x
  BY <1>0, <1>1 DEF x, PublishType
<1>5. CASE ~SubModesOK(mode, sl)
  <2>1. Goto(h, "done") /\ UNCHANGED folder
    BY <1>1, <1>5
  <2>2. pc' \in [Reqs -> Labels] /\ pc'[h] = "done" /\ arg' \in [Reqs -> ArgType] /\ OnlyMoves(h)
    BY <1>0, <1>3, <1>4, <2>1, Moved DEF Labels
  <2>3. PublishType'
    BY <1>0, <2>1, <2>2 DEF PublishType
  <2>4. ReqOK(h)' /\ SoldKept
    BY <1>0, <2>2, DoneOK DEF SoldKept
  <2> QED BY <1>0, <2>1, <2>2, <2>3, <2>4, NoFolderStep
<1>6. CASE SubModesOK(mode, sl)
  <2>1. Goto(h, "init_raw") /\ folder' = savePublishRawFile(h)
    BY <1>1, <1>6
  <2>2. pc' \in [Reqs -> Labels] /\ pc'[h] = "init_raw" /\ arg' \in [Reqs -> ArgType] /\ OnlyMoves(h)
    BY <1>0, <1>3, <1>4, <2>1, Moved DEF Labels
  <2>3. [NoFolder EXCEPT !.there = TRUE] \in FolderType /\ [NoFolder EXCEPT !.there = TRUE].there
    BY Empty DEF FolderType
  <2>4. /\ folder' \in [Names -> FolderType] /\ folder'[h].there
        /\ \A n \in Names : n # h => folder'[n] = folder[n]
    BY <1>0, <2>1, <2>3, Apart DEF PublishType, savePublishRawFile, Names
  <2>5. OnlyFills(h) /\ \A q \in Roots : folder'[q] = folder[q]
    BY <2>4, Apart DEF OnlyFills
  <2>6. \A q \in Roots : FinalOK(q)'
    BY <1>0, <2>2, <2>5, FinalStays
  <2>7. PublishType'
    BY <1>0, <2>2, <2>4 DEF PublishType
  <2>8. ReqOK(h)'
    BY <1>3, <1>4, <1>6, <2>2, <2>4 DEF ReqOK, FillOK, BackOK, SaleOK
  <2>9. SoldKept
    BY <1>0 DEF SoldKept
  <2> QED BY <2>2, <2>5, <2>6, <2>7, <2>8, <2>9, OthersStay
<1> QED BY <1>5, <1>6

\* The types of a request and its folder, and where it is.
LEMMA OwnFacts ==
    ASSUME PublishInv, NEW h \in Reqs
    PROVE  PublishType /\ folder[h] \in FolderType /\ arg[h] \in ArgType /\ ReqOK(h) /\ FillOK(h) /\ BackOK(h)
<1>1. PublishType /\ ReqOK(h) /\ h \in Names
  BY Apart DEF PublishInv, Names
<1> QED BY <1>1 DEF PublishType, ReqOK

\* A request fills its own folder: the other folders, and whose they are, stay.
LEMMA OwnFolder ==
    ASSUME PublishInv, NEW h \in Reqs, NEW l \in Labels, l # "idle", Goto(h, l), NEW f \in FolderType,
           folder' = [folder EXCEPT ![h] = f], UNCHANGED <<arg, stat, pending, sold, crashes>>,
           pc[h] # "publish_write", pc[h] # "publish_failed"
    PROVE  /\ PublishType' /\ pc'[h] = l /\ OnlyMoves(h) /\ folder'[h] = f
           /\ (ReqOK(h)' => PublishInv')
<1>0. PublishType
  BY DEF PublishInv
<1>1. pc' \in [Reqs -> Labels] /\ pc'[h] = l /\ arg' \in [Reqs -> ArgType] /\ OnlyMoves(h)
  BY <1>0, Moved
<1>2. /\ folder' \in [Names -> FolderType] /\ folder'[h] = f
      /\ \A n \in Names : n # h => folder'[n] = folder[n]
  BY <1>0, Apart DEF PublishType, Names
<1>3. OnlyFills(h) /\ \A q \in Roots : folder'[q] = folder[q]
  BY <1>2, Apart DEF OnlyFills
<1>4. \A q \in Roots : FinalOK(q)'
  BY <1>1, <1>3, FinalStays
<1>5. PublishType'
  BY <1>0, <1>1, <1>2 DEF PublishType
<1>6. SoldKept
  BY DEF SoldKept
<1> QED BY <1>1, <1>2, <1>3, <1>4, <1>5, <1>6, OthersStay

\* PublishRawData: the bulletin says the mode and the root of the request.
LEMMA PublishRawStep == ASSUME PublishInv, NEW h \in Reqs, PublishRawData(h) PROVE PublishInv'
<1>0. /\ PublishType /\ pc[h] = "init_raw" /\ UNCHANGED <<arg, stat, pending, sold, crashes>>
      /\ folder[h] \in FolderType /\ FillOK(h)
  BY OwnFacts DEF PublishRawData, chain
<1>1. CASE arg[h].mode \notin DataModes
  <2>1. Goto(h, "done") /\ UNCHANGED folder
    BY <1>1 DEF PublishRawData
  <2>2. pc' \in [Reqs -> Labels] /\ pc'[h] = "done" /\ OnlyMoves(h)
    BY <1>0, <2>1, Moved DEF Labels
  <2>3. PublishType'
    BY <1>0, <2>1, <2>2 DEF PublishType
  <2>4. ReqOK(h)' /\ SoldKept
    BY <1>0, <2>2, DoneOK DEF SoldKept
  <2> QED BY <1>0, <2>1, <2>2, <2>3, <2>4, NoFolderStep
<1>2. CASE arg[h].mode \in DataModes
  <2> DEFINE f == [folder[h] EXCEPT !.by = h, !.mode = arg[h].mode, !.root = arg[h].root]
  <2>1. arg[h].root \in Roots /\ SubModesOK(arg[h].mode, arg[h].subModes) /\ folder[h].there
    BY <1>0 DEF FillOK
  <2>2. /\ f \in FolderType /\ f.there /\ f.by = h /\ f.mode = arg[h].mode /\ f.root = arg[h].root
    BY <1>0, <1>2, <2>1 DEF FolderType
  <2>3. folder' = [folder EXCEPT ![h] = f] /\ Goto(h, "init_bulletin")
    BY <1>2, Apart DEF PublishRawData, PublishType
  <2> HIDE DEF f
  <2>4. pc'[h] = "init_bulletin" /\ folder'[h] = f /\ (ReqOK(h)' => PublishInv')
    <3>1. "init_bulletin" \in Labels /\ f \in FolderType /\ pc[h] # "publish_write" /\ pc[h] # "publish_failed"
      BY <1>0, <2>2 DEF Labels
    <3> QED BY <1>0, <2>3, <3>1, OwnFolder
  <2>5. ReqOK(h)'
    BY <1>0, <1>2, <2>1, <2>2, <2>4 DEF ReqOK, FillOK, BackOK, SaleOK, Checked, Bulletin
  <2> QED BY <2>4, <2>5
<1> QED BY <1>1, <1>2

\* SaveExtra: extra.json says the price and the sub-modes of the request.
LEMMA SaveExtraStep == ASSUME PublishInv, NEW h \in Reqs, SaveExtra(h) PROVE PublishInv'
<1>0. /\ PublishType /\ pc[h] = "init_bulletin" /\ UNCHANGED <<arg, stat, pending, sold, crashes>>
      /\ folder[h] \in FolderType /\ arg[h] \in ArgType /\ FillOK(h)
  BY OwnFacts DEF SaveExtra, chain
<1> DEFINE e == [ok |-> TRUE, subModes |-> arg[h].subModes, price |-> arg[h].price, addr |-> FALSE]
           f == [folder[h] EXCEPT !.extra = e]
<1>1. e \in ExtraType /\ e.ok /\ e.subModes = arg[h].subModes /\ e.price = arg[h].price
  BY <1>0 DEF ArgType, ExtraType
<1>2. folder' = [folder EXCEPT ![h] = f] /\ Goto(h, "init_extra")
  BY DEF SaveExtra
<1> HIDE DEF e
<1>3. /\ f \in FolderType /\ f.there = folder[h].there /\ f.by = folder[h].by /\ f.mode = folder[h].mode
      /\ f.root = folder[h].root /\ f.extra = e
  BY <1>0, <1>1 DEF FolderType
<1> HIDE DEF f
<1>4. pc'[h] = "init_extra" /\ folder'[h] = f /\ (ReqOK(h)' => PublishInv')
  BY <1>0, <1>2, <1>3, OwnFolder DEF Labels
<1>5. arg[h].root \in Roots /\ Checked(h) /\ Bulletin(folder[h], h)
  BY <1>0 DEF FillOK
<1>6. ReqOK(h)'
  BY <1>0, <1>1, <1>3, <1>4, <1>5 DEF ReqOK, FillOK, BackOK, SaleOK, Checked, Bulletin, Says
<1> QED BY <1>4, <1>6

\* ReNameFolder: a complete folder gets the final name, unless there is one.
LEMMA ReNameStep == ASSUME PublishInv, NEW h \in Reqs, ReNameFolder(h) PROVE PublishInv'
<1>0. /\ PublishType /\ pc[h] = "init_extra" /\ UNCHANGED <<arg, stat, pending, sold, crashes>>
      /\ folder[h] \in FolderType /\ FillOK(h) /\ Goto(h, "done")
  BY OwnFacts DEF ReNameFolder, chain
<1>1. pc' \in [Reqs -> Labels] /\ pc'[h] = "done" /\ OnlyMoves(h)
  BY <1>0, Moved DEF Labels
<1>2. ReqOK(h)' /\ SoldKept
  BY <1>0, <1>1, DoneOK DEF SoldKept
<1>3. CASE UNCHANGED folder
  <2>1. PublishType'
    BY <1>0, <1>1, <1>3 DEF PublishType
  <2> QED BY <1>0, <1>1, <1>2, <1>3, <2>1, NoFolderStep
<1>4. CASE ~folder[folder[h].root].there /\ folder' = [folder EXCEPT ![folder[h].root] = folder[h], ![h] = NoFolder]
  <2>1. PICK r \in Roots : /\ r = folder[h].root /\ Checked(h) /\ Bulletin(folder[h], h)
                           /\ folder[h].extra.ok /\ Says(folder[h].extra, h) /\ r = arg[h].root
    BY <1>0 DEF FillOK, Bulletin
  <2>2. /\ folder' \in [Names -> FolderType] /\ folder'[r] = folder[h]
        /\ \A n \in Names : n # h /\ n # r => folder'[n] = folder[n]
    BY <1>0, <1>4, <2>1, Apart, Empty DEF PublishType
  <2>3. OnlyFills(h)
    BY <1>4, <2>1, <2>2, Apart DEF OnlyFills
  <2>4. ASSUME NEW q \in Roots PROVE FinalOK(q)'
    <3>1. CASE q # r
      BY <1>0, <1>1, <2>2, <3>1, Apart, FinalStays
    <3>2. CASE q = r
      <4>1. folder'[q].by = h /\ pc'[h] # "idle" /\ folder'[q].extra.ok /\ folder'[q].root = q
        BY <1>1, <2>1, <2>2, <3>2 DEF Bulletin
      <4> QED BY <1>0, <2>1, <2>2, <3>2, <4>1 DEF FinalOK, Checked, Bulletin, Says
    <3> QED BY <3>1, <3>2
  <2>5. PublishType'
    BY <1>0, <1>1, <2>2 DEF PublishType
  <2> QED BY <1>1, <1>2, <2>3, <2>4, <2>5, OthersStay
<1> QED BY <1>3, <1>4 DEF ReNameFolder

\* PublishData: what is read of a folder under its final name is what its request said.
LEMMA PublishDataStep == ASSUME PublishInv, NEW h \in Reqs, PublishData(h) PROVE PublishInv'
<1>0. PublishType /\ pc[h] = "idle" /\ UNCHANGED <<folder, stat, pending, sold, crashes>>
  BY DEF PublishInv, PublishData, chain
<1>1. PICK r \in Roots :
            /\ arg' = [arg EXCEPT ![h] = [NoArg EXCEPT !.root = r, !.extra = folder[r].extra]]
            /\ Goto(h, IF folder[r].there /\ folder[r].extra.ok THEN "publish_send" ELSE "done")
  BY DEF PublishData
<1> DEFINE x == [NoArg EXCEPT !.root = r, !.extra = folder[r].extra]
           l == IF folder[r].there /\ folder[r].extra.ok THEN "publish_send" ELSE "done"
<1>2. folder[r].extra \in ExtraType
  BY <1>0, Apart DEF PublishType, FolderType
<1>3. x \in ArgType /\ x.root = r /\ x.extra = folder[r].extra
  BY <1>2, Empty DEF ArgType
<1>4. arg' = [arg EXCEPT ![h] = x] /\ Goto(h, l)
  BY <1>1
<1>5. l \in Labels /\ l # "idle"
  BY DEF Labels
<1> HIDE DEF x, l
<1>6. pc' \in [Reqs -> Labels] /\ pc'[h] = l /\ arg' \in [Reqs -> ArgType] /\ OnlyMoves(h)
  BY <1>0, <1>3, <1>4, <1>5, Moved
<1>7. arg'[h] = x
  BY <1>0, <1>4 DEF PublishType
<1>8. PublishType'
  BY <1>0, <1>6 DEF PublishType
<1>9. ReqOK(h)'
  <2>1. CASE l = "done"
    BY <1>6, <2>1, DoneOK
  <2>2. CASE l = "publish_send" /\ folder[r].there /\ folder[r].extra.ok
    <3>1. folder[r].by \in Reqs /\ pc[folder[r].by] # "idle" /\ Says(folder[r].extra, folder[r].by)
      BY <2>2 DEF PublishInv, FinalOK
    <3>2. arg'[folder[r].by] = arg[folder[r].by]
      BY <1>6, <3>1 DEF OnlyMoves
    <3>3. Says(arg[h].extra, folder[arg[h].root].by)'
      BY <1>0, <1>3, <1>7, <3>1, <3>2 DEF Says
    <3>4. BackOK(h)'
      BY <1>0, <1>3, <1>7, <2>2, <3>3 DEF BackOK
    <3> QED BY <1>6, <2>2, <3>4 DEF ReqOK, FillOK, SaleOK
  <2> QED BY <2>1, <2>2 DEF l
<1>10. SoldKept
  BY <1>0 DEF SoldKept
<1> QED BY <1>0, <1>6, <1>8, <1>9, <1>10, NoFolderStep

\* Pending transactions name a call and a data file.
Calls == {"Publish", "UnPublish", "WithdrawA"} \X Roots

\* A step that moves on, touches no folder and may send a transaction.
LEMMA SendStep ==
    ASSUME PublishInv, NEW h \in Reqs, NEW l \in Labels, l # "idle", Goto(h, l), pc[h] # "publish_write",
           pc[h] # "publish_failed", UNCHANGED <<arg, folder, stat, sold, crashes>>, pending' \subseteq pending \cup Calls
    PROVE  pc'[h] = l /\ (ReqOK(h)' => PublishInv')
<1>0. PublishType
  BY DEF PublishInv
<1>1. pc' \in [Reqs -> Labels] /\ pc'[h] = l /\ OnlyMoves(h)
  BY <1>0, Moved
<1>2. PublishType'
  BY <1>0, <1>1 DEF PublishType, Calls
<1>3. SoldKept
  BY DEF SoldKept
<1> QED BY <1>1, <1>2, <1>3, NoFolderStep

\* PublishToContract: what was read is kept.
LEMMA ToContractStep == ASSUME PublishInv, NEW h \in Reqs, PublishToContract(h) PROVE PublishInv'
<1>0. /\ BackOK(h) /\ pc[h] = "publish_send" /\ UNCHANGED <<arg, folder, stat, sold, crashes>>
  BY OwnFacts DEF PublishToContract
<1>1. CASE Goto(h, "done") /\ UNCHANGED pending
  <2>1. "done" \in Labels /\ pending' \subseteq pending \cup Calls
    BY <1>1 DEF Labels
  <2> QED BY <1>0, <1>1, <2>1, SendStep, DoneOK
<1>2. CASE Goto(h, "publish_cut") /\ pending' = pending \cup {<<"Publish", arg[h].root>>}
  <2>1. "publish_cut" \in Labels /\ arg[h].root \in Roots
    BY <1>0 DEF Labels, BackOK
  <2>2. pending' \subseteq pending \cup Calls
    BY <1>2, <2>1 DEF Calls
  <2>3. pc'[h] = "publish_cut" /\ (ReqOK(h)' => PublishInv')
    BY <1>0, <1>2, <2>1, <2>2, SendStep
  <2>4. ReqOK(h)'
    BY <1>0, <2>3 DEF ReqOK, FillOK, BackOK, SaleOK, Says
  <2> QED BY <2>3, <2>4
<1> QED BY <1>1, <1>2 DEF PublishToContract

\* A publication that writes the extra.json of its data file leaves whose it is.
LEMMA WriteStep ==
    ASSUME PublishInv, NEW h \in Reqs, NEW l \in Labels, l # "idle", Goto(h, l), NEW r \in Roots, NEW e \in ExtraType,
           folder[r].there, folder' = [folder EXCEPT ![r] = [folder[r] EXCEPT !.extra = e]], Says(e, folder[r].by),
           UNCHANGED <<arg, stat, pending, sold, crashes>>,
           pc[h] # "publish_failed", r = arg[h].root, e.ok \/ l \in Writers
    PROVE  /\ pc'[h] = l /\ folder'[r].there /\ folder'[r].by = folder[r].by
           /\ (ReqOK(h)' => PublishInv')
<1>0. PublishType /\ folder[r] \in FolderType
  BY Apart DEF PublishInv, PublishType, Names
<1>1. pc' \in [Reqs -> Labels] /\ pc'[h] = l /\ OnlyMoves(h)
  BY <1>0, Moved
<1> DEFINE f == [folder[r] EXCEPT !.extra = e]
<1>2. /\ f \in FolderType /\ f.there = folder[r].there /\ f.by = folder[r].by /\ f.mode = folder[r].mode
      /\ f.root = folder[r].root /\ f.extra = e
  BY <1>0 DEF FolderType
<1>3. folder' = [folder EXCEPT ![r] = f]
  OBVIOUS
<1> HIDE DEF f
<1>4. folder' \in [Names -> FolderType] /\ folder'[r] = f /\ \A n \in Names : n # r => folder'[n] = folder[n]
  BY <1>0, <1>2, <1>3, Apart DEF PublishType, Names
<1>5. OnlyFills(h)
  <2>1. \A g \in Reqs : folder'[g] = folder[g]
    BY <1>4, Apart
  <2>2. \A q \in Roots : folder[q].there => folder'[q].there /\ folder'[q].by = folder[q].by
    BY <1>2, <1>4, Apart
  <2> QED BY <2>1, <2>2 DEF OnlyFills
<1>6. ASSUME NEW q \in Roots PROVE FinalOK(q)'
  <2> SUFFICES ASSUME folder'[q].there PROVE FinalOK(q)'
    BY DEF FinalOK
  <2>1. folder[q].there /\ FinalOK(q) /\ q \in Names
    BY <1>2, <1>4, <1>6, Apart DEF PublishInv
  <2>2. folder[q].by \in Reqs /\ pc[folder[q].by] # "idle"
    BY <2>1 DEF FinalOK
  <2>3. arg'[folder[q].by] = arg[folder[q].by] /\ pc'[folder[q].by] # "idle"
    BY <1>1, <2>2 DEF OnlyMoves
  <2>4. CASE q = r
    <3>1. folder'[q].by = folder[q].by /\ folder'[q].root = folder[q].root /\ folder'[q].mode = folder[q].mode
          /\ folder'[q].extra = e
      BY <1>2, <1>4, <2>4
    <3>2. e.ok \/ (pc'[h] \in Writers /\ arg'[h].root = q)
      BY <1>1, <2>4
    <3>3. Says(folder[q].extra, folder[q].by)'
      BY <2>3, <2>4, <3>1 DEF Says
    <3> QED BY <2>1, <2>2, <2>3, <3>1, <3>2, <3>3 DEF FinalOK, Checked
  <2>5. CASE q # r
    <3>1. folder'[q] = folder[q]
      BY <1>4, <2>1, <2>5
    <3>2. \A g \in Reqs : pc[g] \in Writers /\ arg[g].root = q => pc'[g] \in Writers /\ arg'[g].root = q
      BY <1>1, <2>5 DEF OnlyMoves
    <3> QED BY <2>1, <2>2, <2>3, <3>1, <3>2 DEF FinalOK, Checked, Says
  <2> QED BY <2>4, <2>5
<1>7. PublishType' /\ SoldKept
  BY <1>0, <1>1, <1>4 DEF PublishType, SoldKept
<1> QED BY <1>1, <1>2, <1>4, <1>5, <1>6, <1>7, OthersStay

\* What cutting extra.json does to it.
LEMMA CutExtraOf ==
    ASSUME PublishInv, NEW r \in Roots, folder[r].there
    PROVE  LET e == [folder[r].extra EXCEPT !.ok = FALSE] IN e \in ExtraType /\ Says(e, folder[r].by)
<1>1. folder[r].extra \in ExtraType /\ Says(folder[r].extra, folder[r].by)
  BY Apart DEF PublishInv, PublishType, FolderType, Names, FinalOK
<1> DEFINE e == [folder[r].extra EXCEPT !.ok = FALSE]
<1>2. e \in ExtraType /\ e.price = folder[r].extra.price /\ e.subModes = folder[r].extra.subModes
  BY <1>1 DEF ExtraType
<1> QED BY <1>1, <1>2 DEF Says

\* A step of a publication that leaves extra.json cut, and the one that has cut it there.
LEMMA CutBy ==
    ASSUME PublishInv, NEW h \in Reqs, pc[h] # "publish_failed", NEW l \in Writers, Goto(h, l),
           NEW r \in Roots, r = arg[h].root, folder[r].there,
           folder' = [folder EXCEPT ![r].extra.ok = FALSE], UNCHANGED <<arg, stat, pending, sold, crashes>>
    PROVE  /\ pc'[h] = l /\ folder'[r].there /\ folder'[r].by = folder[r].by
           /\ (ReqOK(h)' => PublishInv')
<1>1. PICK e \in ExtraType : e = [folder[r].extra EXCEPT !.ok = FALSE] /\ Says(e, folder[r].by)
  BY CutExtraOf
<1>2. folder' = [folder EXCEPT ![r] = [folder[r] EXCEPT !.extra = e]]
  BY <1>1
<1>3. PICK k \in Labels : k = l /\ k # "idle"
  BY DEF Writers, Labels
<1>4. /\ Goto(h, k) /\ (e.ok \/ k \in Writers) /\ UNCHANGED <<arg, stat, pending, sold, crashes>>
      /\ folder[r].there /\ r = arg[h].root /\ pc[h] # "publish_failed"
  BY <1>3
<1>5. /\ pc'[h] = k /\ folder'[r].there /\ folder'[r].by = folder[r].by
      /\ (ReqOK(h)' => PublishInv')
  BY <1>1, <1>2, <1>3, <1>4, WriteStep, ZenonT(60)
<1> QED BY <1>3, <1>5

\* CutExtra: only the readability of extra.json is lost.
LEMMA CutStep == ASSUME PublishInv, NEW h \in Reqs, CutExtra(h) PROVE PublishInv'
<1>0. /\ BackOK(h) /\ pc[h] = "publish_cut" /\ UNCHANGED <<arg, stat, pending, sold, crashes>>
      /\ Goto(h, "publish_write") /\ folder' = [folder EXCEPT ![arg[h].root].extra.ok = FALSE]
  BY OwnFacts DEF CutExtra, chain
<1>1. PICK r \in Roots : /\ r = arg[h].root /\ folder[r].there /\ arg[h].extra.ok
                         /\ Says(arg[h].extra, folder[r].by)
  BY <1>0 DEF BackOK
<1>2. PICK l \in Writers : l = "publish_write"
  BY DEF Writers
<1>3. /\ pc'[h] = l /\ folder'[r].there /\ folder'[r].by = folder[r].by
      /\ (ReqOK(h)' => PublishInv')
  <2>1. Goto(h, l) /\ pc[h] # "publish_failed" /\ folder' = [folder EXCEPT ![r].extra.ok = FALSE]
    BY <1>0, <1>1, <1>2
  <2> QED BY <1>0, <1>1, <2>1, CutBy, ZenonT(60)
<1>4. ReqOK(h)'
  BY <1>0, <1>1, <1>2, <1>3 DEF ReqOK, FillOK, BackOK, SaleOK, Says
<1> QED BY <1>3, <1>4

\* WriteExtra: what was read is written back, or the file is left to be found cut.
LEMMA WriteExtraStep == ASSUME PublishInv, NEW h \in Reqs, WriteExtra(h) PROVE PublishInv'
<1>0. /\ BackOK(h) /\ pc[h] = "publish_write" /\ UNCHANGED <<arg, stat, pending, sold, crashes>> /\ arg[h] \in ArgType
  BY OwnFacts DEF WriteExtra, chain
<1>1. PICK r \in Roots : /\ r = arg[h].root /\ folder[r].there /\ arg[h].extra.ok
                         /\ Says(arg[h].extra, folder[r].by)
  BY <1>0 DEF BackOK
<1>2. CASE /\ folder' = [folder EXCEPT ![arg[h].root].extra = [arg[h].extra EXCEPT !.addr = TRUE]]
           /\ Goto(h, "done")
  <2> DEFINE e == [arg[h].extra EXCEPT !.addr = TRUE]
  <2>2. arg[h].extra \in ExtraType
    BY <1>0 DEF ArgType
  <2>3. /\ e \in ExtraType /\ e.ok = arg[h].extra.ok /\ e.price = arg[h].extra.price
        /\ e.subModes = arg[h].extra.subModes
    BY <2>2 DEF ExtraType
  <2>4. folder' = [folder EXCEPT ![r] = [folder[r] EXCEPT !.extra = e]]
    BY <1>1, <1>2
  <2> HIDE DEF e
  <2>5. Says(e, folder[r].by) /\ e.ok
    BY <1>1, <2>3 DEF Says
  <2>6. "done" \in Labels
    BY DEF Labels
  <2>7. pc'[h] = "done" /\ (ReqOK(h)' => PublishInv')
    BY <1>0, <1>1, <1>2, <2>3, <2>4, <2>5, <2>6, WriteStep
  <2> QED BY <2>7, DoneOK
<1>3. CASE folder' = [folder EXCEPT ![arg[h].root].extra.ok = FALSE] /\ Goto(h, "publish_failed")
  <2>1. PICK l \in Writers : l = "publish_failed"
    BY DEF Writers
  <2>2. Goto(h, l) /\ pc[h] # "publish_failed" /\ folder' = [folder EXCEPT ![r].extra.ok = FALSE]
    BY <1>0, <1>1, <1>3, <2>1
  <2>3. pc'[h] = l /\ (ReqOK(h)' => PublishInv')
    BY <1>0, <1>1, <2>2, CutBy, ZenonT(60)
  <2> QED BY <2>1, <2>3, DoneOK
<1>4. CASE UNCHANGED folder /\ Goto(h, "publish_failed")
  <2> DEFINE e == folder[r].extra
  <2>1. folder[r] \in FolderType /\ e \in ExtraType /\ Says(e, folder[r].by)
    BY <1>1, Apart DEF PublishInv, PublishType, FolderType, Names, FinalOK
  <2>2. [folder[r] EXCEPT !.extra = e] = folder[r]
    BY <2>1 DEF FolderType
  <2>3. folder' = [folder EXCEPT ![r] = [folder[r] EXCEPT !.extra = e]]
    BY <1>4, <2>2, Apart DEF PublishInv, PublishType
  <2> HIDE DEF e
  <2>4. PICK l \in Labels : l = "publish_failed" /\ l # "idle" /\ l \in Writers
    BY DEF Labels, Writers
  <2>5. Goto(h, l) /\ pc[h] # "publish_failed"
    BY <1>0, <1>4, <2>4
  <2>6. pc'[h] = l /\ (ReqOK(h)' => PublishInv')
    BY <1>0, <1>1, <2>1, <2>3, <2>4, <2>5, WriteStep, ZenonT(60)
  <2> QED BY <2>4, <2>6, DoneOK
<1> QED BY <1>2, <1>3, <1>4 DEF WriteExtra

\* Fails: a handler that returns leaves what there is.
LEMMA FailsStep == ASSUME PublishInv, NEW h \in Reqs, Fails(h) PROVE PublishInv'
<1>1. /\ Goto(h, "done") /\ pc[h] # "publish_write" /\ pc[h] # "publish_failed"
      /\ UNCHANGED <<arg, folder, stat, pending, sold, crashes>> /\ "done" \in Labels
  BY DEF Fails, chain, Labels
<1>2. pending' \subseteq pending \cup Calls
  BY <1>1
<1> QED BY <1>1, <1>2, SendStep, DoneOK

-----------------------------------------------------------------------------
\* CloseData, closeDataAtContract and WithdrawFromData touch the contract only.
LEMMA CloseStep ==
    ASSUME PublishInv, NEW h \in Reqs, CloseData(h) \/ closeDataAtContract(h) \/ WithdrawFromData(h)
    PROVE  PublishInv'
<1>0. PublishType /\ ReqOK(h)
  BY OwnFacts
<1>1. CASE CloseData(h)
  <2>1. PICK r \in Roots : arg' = [arg EXCEPT ![h] = [NoArg EXCEPT !.root = r]]
    BY <1>1 DEF CloseData
  <2>2. pc[h] = "idle" /\ Goto(h, "close_send") /\ UNCHANGED <<folder, stat, pending, sold, crashes>>
    BY <1>1 DEF CloseData, chain
  <2> DEFINE x == [NoArg EXCEPT !.root = r]
  <2>3. x \in ArgType /\ x.root = r
    BY Empty DEF ArgType
  <2>4. arg' = [arg EXCEPT ![h] = x] /\ arg'[h] = x
    BY <1>0, <2>1 DEF PublishType
  <2> HIDE DEF x
  <2>5. pc' \in [Reqs -> Labels] /\ pc'[h] = "close_send" /\ arg' \in [Reqs -> ArgType] /\ OnlyMoves(h)
    <3>1. "close_send" \in Labels
      BY DEF Labels
    <3> QED BY <1>0, <2>2, <2>3, <2>4, <3>1, Moved
  <2>6. PublishType' /\ SoldKept
    BY <1>0, <2>2, <2>5 DEF PublishType, SoldKept
  <2>7. ReqOK(h)'
    BY <2>3, <2>4, <2>5 DEF ReqOK, FillOK, BackOK, SaleOK
  <2> QED BY <2>2, <2>5, <2>6, <2>7, NoFolderStep
<1>2. CASE closeDataAtContract(h)
  <2>1. /\ Goto(h, "done") /\ UNCHANGED <<arg, folder, stat, sold, crashes>> /\ pc[h] = "close_send"
        /\ pending' = pending \cup {<<"UnPublish", arg[h].root>>}
    BY <1>2 DEF closeDataAtContract
  <2>2. arg[h].root \in Roots /\ "done" \in Labels
    BY <1>0, <2>1 DEF ReqOK, Labels
  <2>3. pending' \subseteq pending \cup Calls
    BY <2>1, <2>2 DEF Calls
  <2> QED BY <2>1, <2>2, <2>3, SendStep, DoneOK
<1>3. CASE WithdrawFromData(h)
  <2>1. PICK r \in Roots : pending' = pending \cup {<<"WithdrawA", r>>}
    BY <1>3 DEF WithdrawFromData
  <2>2. Goto(h, "done") /\ UNCHANGED <<arg, folder, stat, sold, crashes>> /\ pc[h] = "idle" /\ "done" \in Labels
    BY <1>3 DEF WithdrawFromData, Labels
  <2>3. pending' \subseteq pending \cup Calls
    BY <2>1 DEF Calls
  <2> QED BY <2>2, <2>3, SendStep, DoneOK
<1> QED BY <1>1, <1>2, <1>3

\* A list of one.
LEMMA OneLong == \A S : \A y \in S : <<y>> \in Seq(S) /\ <<y>>[1] = y
OBVIOUS

\* preAliceTx on an offer that passed the check of the sub-modes: its choice is one of
\* them, and every one of them has a program.
LEMMA ChoiceIsServed ==
    ASSUME NEW offer, NEW re, offer.mode \in DataModes, offer.subModes \in Seq(SubModes),
           SubModesOK(offer.mode, offer.subModes)
    PROVE  LET x == preAliceTx(offer, re)
           IN  /\ x.mode = offer.mode /\ x.subMode \in SubModes /\ x.ot \in BOOLEAN /\ AliceTxFor(x) # ""
               /\ \E i \in DOMAIN offer.subModes : x.subMode = offer.subModes[i]
<1>0. PICK mode, subs, x :
            /\ mode \in DataModes /\ subs \in Seq(SubModes) /\ SubModesOK(mode, subs)
            /\ mode = offer.mode /\ subs = offer.subModes /\ x = preAliceTx(offer, re)
  OBVIOUS
<1> DEFINE sub == IF re.subMode \in {subs[i] : i \in DOMAIN subs} THEN re.subMode ELSE subs[1]
<1>1. subs # << >> /\ \A i \in DOMAIN subs : subs[i] \in SubModes
                     /\ (mode = "plain" => subs[i] \in {"complaint", "atomic_swap", "atomic_swap_vc"})
  BY <1>0 DEF SubModesOK
<1>2. 1 \in DOMAIN subs
  BY <1>0, <1>1
<1>s. \E i \in DOMAIN subs : sub = subs[i]
  BY <1>2
<1>3. sub \in SubModes /\ (mode = "plain" => sub \in {"complaint", "atomic_swap", "atomic_swap_vc"})
  BY <1>1, <1>2
<1> DEFINE b == re.ot /\ sub \notin {"atomic_swap", "atomic_swap_vc"}
<1>4. x = [mode |-> mode, subMode |-> sub, ot |-> b] /\ b \in BOOLEAN
  BY <1>0 DEF preAliceTx
<1> HIDE DEF sub, b
<1>5. x.mode = mode /\ x.subMode = sub /\ x.ot \in BOOLEAN
  BY <1>4
<1>6. AliceTxFor(x) # ""
  BY <1>3, <1>5 DEF AliceTxFor, SubModes, DataModes
<1> QED BY <1>0, <1>s, <1>3, <1>5, <1>6

\* ReadOffer: what is chosen from a complete folder has a program and was offered.
LEMMA ReadOfferStep == ASSUME PublishInv, NEW h \in Reqs, ReadOffer(h) PROVE PublishInv'
<1>0. PublishType /\ pc[h] = "idle" /\ UNCHANGED <<folder, stat, pending, sold, crashes>> /\ Goto(h, "sale_status")
  BY OwnFacts DEF ReadOffer, chain
<1>1. PICK r \in Roots, want \in SubModes \cup {""}, p \in Prices, ot \in BOOLEAN :
            LET extra == folder[r].extra
                offer == [mode |-> folder[r].mode, subModes |-> extra.subModes, floor |-> extra.price,
                          onSale |-> TRUE]
                re    == [price |-> p, subMode |-> want, ot |-> ot]
            IN  /\ folder[r].there /\ extra.ok
                /\ Acceptable(offer, re)
                /\ arg' = [arg EXCEPT ![h] = [NoArg EXCEPT
                                !.root = r, !.mode = preAliceTx(offer, re).mode,
                                !.subModes = <<preAliceTx(offer, re).subMode>>,
                                !.ot = preAliceTx(offer, re).ot, !.price = p]]
  BY DEF ReadOffer
<1>2. PICK offer, re : /\ offer = [mode |-> folder[r].mode, subModes |-> folder[r].extra.subModes,
                                     floor |-> folder[r].extra.price, onSale |-> TRUE]
                       /\ re = [price |-> p, subMode |-> want, ot |-> ot]
  OBVIOUS
<1>c. PICK c : c = preAliceTx(offer, re)
  OBVIOUS
<1> DEFINE x == [NoArg EXCEPT !.root = r, !.mode = c.mode, !.subModes = <<c.subMode>>, !.ot = c.ot, !.price = p]
<1>3. folder[r].there /\ arg' = [arg EXCEPT ![h] = x] /\ folder[r].extra.price <= p
  BY <1>1, <1>2, <1>c DEF Acceptable
<1>4. /\ folder[r].mode \in DataModes /\ folder[r].extra.subModes \in Seq(SubModes)
      /\ SubModesOK(folder[r].mode, folder[r].extra.subModes)
  <2>1. folder[r].extra \in ExtraType
    BY Apart DEF PublishInv, PublishType, FolderType, Names
  <2>2. FinalOK(r)
    BY DEF PublishInv
  <2>3. folder[r].extra.subModes \in Seq(SubModes)
    BY <2>1 DEF ExtraType
  <2> QED BY <1>3, <2>2, <2>3 DEF FinalOK, Checked, Says
<1>5. /\ c.mode = folder[r].mode /\ c.mode \in DataModes /\ c.subMode \in SubModes /\ c.ot \in BOOLEAN
      /\ AliceTxFor(c) # "" /\ \E i \in DOMAIN folder[r].extra.subModes : c.subMode = folder[r].extra.subModes[i]
  <2>1. offer.mode \in DataModes /\ offer.subModes \in Seq(SubModes) /\ SubModesOK(offer.mode, offer.subModes)
    BY <1>2, <1>4
  <2>2. /\ c.mode = offer.mode /\ c.subMode \in SubModes /\ c.ot \in BOOLEAN /\ AliceTxFor(c) # ""
        /\ \E i \in DOMAIN offer.subModes : c.subMode = offer.subModes[i]
    BY <1>c, <2>1, ChoiceIsServed
  <2>3. offer.mode = folder[r].mode /\ offer.subModes = folder[r].extra.subModes
    BY <1>2
  <2> QED BY <1>4, <2>2, <2>3
<1>6. <<c.subMode>> \in Seq(SubModes) /\ <<c.subMode>>[1] = c.subMode /\ p \in Nat
  <2>1. \A y \in SubModes : <<y>> \in Seq(SubModes) /\ <<y>>[1] = y
    BY OneLong
  <2>2. p \in Nat
    BY PublishAssumption
  <2> QED BY <1>5, <2>1, <2>2
<1>7. x \in ArgType /\ x.root = r /\ x.mode = c.mode /\ x.subModes = <<c.subMode>> /\ x.ot = c.ot /\ x.price = p
  BY <1>5, <1>6, Empty DEF ArgType
<1> HIDE DEF x
<1>8. pc' \in [Reqs -> Labels] /\ pc'[h] = "sale_status" /\ arg' \in [Reqs -> ArgType] /\ OnlyMoves(h)
  <2>1. "sale_status" \in Labels
    BY DEF Labels
  <2> QED BY <1>0, <1>3, <1>7, <2>1, Moved
<1>9. arg'[h] = x
  BY <1>0, <1>3 DEF PublishType
<1>10. PublishType' /\ SoldKept
  BY <1>0, <1>8 DEF PublishType, SoldKept
<1>11. PICK q : q = [mode |-> c.mode, subMode |-> c.subMode, ot |-> c.ot]
  OBVIOUS
<1>12. AliceTxFor(q) # "" /\ q.mode = c.mode /\ q.subMode = c.subMode
  BY <1>5, <1>11 DEF AliceTxFor
<1>13. Offered(r, q, p)
  <2>1. FinalOK(r)
    BY DEF PublishInv
  <2>2. /\ folder[r].mode = arg[folder[r].by].mode /\ folder[r].extra.price = arg[folder[r].by].price
        /\ folder[r].extra.subModes = arg[folder[r].by].subModes
    BY <1>3, <2>1 DEF FinalOK, Says
  <2> QED BY <1>3, <1>5, <1>12, <2>2 DEF Offered
<1>14. Offered(r, q, p)'
  <2>1. OnlyFills(h)
    BY <1>0 DEF OnlyFills
  <2> QED BY <1>8, <1>13, <2>1, OfferedStays
<1>15. Chosen(h)' = q /\ arg'[h].root = r /\ arg'[h].price = p
  BY <1>6, <1>7, <1>9, <1>11 DEF Chosen
<1>16. SaleOK(h)'
  BY <1>12, <1>14, <1>15 DEF SaleOK, Offered
<1>17. ReqOK(h)'
  BY <1>8, <1>16 DEF ReqOK, FillOK, BackOK
<1> QED BY <1>0, <1>8, <1>10, <1>17, NoFolderStep

\* CheckOnSale and AcceptSale keep the choice.
LEMMA SaleStep == ASSUME PublishInv, NEW h \in Reqs, CheckOnSale(h) \/ AcceptSale(h) PROVE PublishInv'
<1>0. PublishType /\ ReqOK(h) /\ arg[h] \in ArgType
  BY OwnFacts
<1>1. CASE CheckOnSale(h)
  <2>1. PICK l \in {"sale_accept", "done"} : Goto(h, l)
    BY <1>1 DEF CheckOnSale
  <2>2. pc[h] = "sale_status" /\ UNCHANGED <<arg, folder, stat, pending, sold, crashes>>
    BY <1>1 DEF CheckOnSale, chain
  <2>3. l \in Labels /\ l # "idle" /\ pending' \subseteq pending \cup Calls
    BY <2>2 DEF Labels
  <2>4. pc'[h] = l /\ (ReqOK(h)' => PublishInv')
    BY <2>1, <2>2, <2>3, SendStep
  <2>5. ReqOK(h)'
    BY <1>0, <2>1, <2>2, <2>4 DEF ReqOK, FillOK, BackOK, SaleOK, Chosen, Offered
  <2> QED BY <2>4, <2>5
<1>2. CASE AcceptSale(h)
  <2> DEFINE q == Chosen(h)
             t == [root |-> arg[h].root, price |-> arg[h].price, params |-> q]
  <2>1. /\ pc[h] = "sale_accept" /\ UNCHANGED <<arg, folder, stat, pending, crashes>> /\ Goto(h, "done")
        /\ sold' = sold \cup {t}
    BY <1>2 DEF AcceptSale, chain, Chosen
  <2>2. AliceTxFor(q) # "" /\ Offered(arg[h].root, q, arg[h].price) /\ arg[h].root \in Roots /\ arg[h].price \in Nat
    BY <1>0, <2>1 DEF ReqOK, SaleOK, ArgType
  <2> HIDE DEF q
  <2>3. t.root = arg[h].root /\ t.price = arg[h].price /\ t.params = q
    OBVIOUS
  <2> HIDE DEF t
  <2>4. SoldKept /\ \A s \in sold' : s.root \in Roots /\ s.price \in Nat
    BY <1>0, <2>1, <2>2, <2>3 DEF PublishInv, SoldKept, SoldIsServed, Offered, PublishType
  <2>5. pc' \in [Reqs -> Labels] /\ pc'[h] = "done" /\ OnlyMoves(h)
    <3>1. "done" \in Labels
      BY DEF Labels
    <3> QED BY <1>0, <2>1, <3>1, Moved
  <2>6. PublishType'
    BY <1>0, <2>1, <2>4, <2>5 DEF PublishType
  <2>7. ReqOK(h)'
    BY <2>5, DoneOK
  <2> QED BY <2>1, <2>4, <2>5, <2>6, <2>7, NoFolderStep
<1> QED BY <1>1, <1>2

-----------------------------------------------------------------------------
\* Mine: the folders and the requests do not look at what is pending.
LEMMA MineStep == ASSUME PublishInv, Mine PROVE PublishInv'
<1>0. PublishType /\ UNCHANGED <<pc, arg, folder, sold, crashes>>
  BY DEF PublishInv, Mine
<1>1. PICK t \in pending :
            /\ pending' = pending \ {t}
            /\ stat' = [stat EXCEPT ![t[2]] =
                    CASE t[1] = "Publish" /\ @ = "none"        -> "ok"
                      [] t[1] = "UnPublish" /\ @ = "ok"        -> "canceling"
                      [] t[1] = "WithdrawA" /\ @ = "canceling" -> "canceled"
                      [] OTHER                                  -> @]
  BY DEF Mine
<1>2. PICK call \in {"Publish", "UnPublish", "WithdrawA"}, r \in Roots : t = <<call, r>>
  BY <1>0 DEF PublishType
<1> DEFINE v == CASE call = "Publish" /\ stat[r] = "none"        -> "ok"
                  [] call = "UnPublish" /\ stat[r] = "ok"        -> "canceling"
                  [] call = "WithdrawA" /\ stat[r] = "canceling" -> "canceled"
                  [] OTHER                                       -> stat[r]
<1>3. stat' = [stat EXCEPT ![r] = v]
  BY <1>1, <1>2
<1>4. stat[r] \in {"none", "ok", "canceling", "canceled"}
  BY <1>0 DEF PublishType
<1>5. v \in {"none", "ok", "canceling", "canceled"}
  BY <1>4
<1> HIDE DEF v
<1>6. stat' \in [Roots -> {"none", "ok", "canceling", "canceled"}]
  BY <1>0, <1>3, <1>5 DEF PublishType
<1>7. PublishType'
  BY <1>0, <1>1, <1>6 DEF PublishType
<1>8. ASSUME NEW h \in Reqs PROVE ReqOK(h)'
  BY <1>0, ZenonT(60) DEF PublishInv, ReqOK, FillOK, BackOK, SaleOK, Chosen, Offered, Says, Checked, Bulletin
<1>9. \A x \in Roots : FinalOK(x)'
  BY <1>0 DEF PublishInv, FinalOK, Says, Checked
<1>10. SoldIsServed'
  BY <1>0 DEF PublishInv, SoldIsServed, Offered
<1> QED BY <1>7, <1>8, <1>9, <1>10 DEF PublishInv

\* Crashes are counted up to their bound, and then there was one.
LEMMA CrashBound ==
    ASSUME crashes \in 0..MaxCrashes, crashes < MaxCrashes, crashes' = crashes + 1
    PROVE  crashes' \in 0..MaxCrashes /\ crashes' > 0
<1>1. MaxCrashes \in Nat
  BY PublishAssumption
<1> QED BY <1>1

\* Crash: no handler goes on, the folders stay.
LEMMA CrashStep == ASSUME PublishInv, Crash PROVE PublishInv'
<1>0. PublishType /\ UNCHANGED <<arg, folder, stat, pending, sold>>
  BY DEF PublishInv, Crash, chain
<1>1. crashes' \in 0..MaxCrashes /\ crashes' > 0
  BY <1>0, CrashBound DEF Crash, PublishType
<1>2. /\ pc' \in [Reqs -> Labels]
      /\ \A h \in Reqs : pc'[h] \in {"idle", "done"} /\ (pc'[h] = "idle" <=> pc[h] = "idle")
  BY DEF Crash, Labels
<1>3. PublishType'
  BY <1>0, <1>1, <1>2 DEF PublishType
<1>4. ASSUME NEW h \in Reqs PROVE ReqOK(h)'
  BY <1>2 DEF ReqOK, FillOK, BackOK, SaleOK
<1>5. ASSUME NEW r \in Roots PROVE FinalOK(r)'
  <2>1. FinalOK(r)
    BY DEF PublishInv
  <2> QED BY <1>0, <1>1, <1>2, <2>1 DEF FinalOK, Checked, Says
<1> QED BY <1>0, <1>3, <1>4, <1>5 DEF PublishInv, SoldIsServed, Offered

-----------------------------------------------------------------------------
\* Init establishes PublishInv and every step of a handler, the contract and a restart
\* keeps it.
THEOREM PublishInvariant == Spec => []PublishInv
<1>1. Init => PublishInv
  <2> SUFFICES ASSUME Init PROVE PublishInv
    OBVIOUS
  <2>1. 0 \in 0..MaxCrashes
    <3>1. MaxCrashes \in Nat
      BY PublishAssumption
    <3> QED BY <3>1
  <2>2. PublishType
    BY <2>1, Empty DEF Init, PublishType, Labels
  <2>3. \A r \in Roots : ~folder[r].there
    <3>1. ~NoFolder.there
      BY DEF NoFolder
    <3>2. \A n \in Names : folder[n] = NoFolder
      BY DEF Init
    <3> QED BY <3>1, <3>2, Apart
  <2>4. \A h \in Reqs : pc[h] = "idle"
    BY DEF Init
  <2> QED
    BY <2>2, <2>3, <2>4 DEF PublishInv, ReqOK, FillOK, BackOK, SaleOK, FinalOK, SoldIsServed, Init
<1>2. PublishInv /\ [Next]_vars => PublishInv'
  <2> SUFFICES ASSUME PublishInv, [Next]_vars PROVE PublishInv'
    OBVIOUS
  <2>1. CASE UNCHANGED vars
    <3>1. UNCHANGED <<pc, arg, folder, stat, pending, sold, crashes>>
      BY <2>1 DEF vars
    <3>2. PublishType' /\ SoldIsServed'
      BY <3>1 DEF PublishInv, PublishType, SoldIsServed, Offered
    <3>3. ASSUME NEW h \in Reqs PROVE ReqOK(h)'
      BY <3>1, ZenonT(60) DEF PublishInv, ReqOK, FillOK, BackOK, SaleOK, Chosen, Offered, Says, Checked, Bulletin
    <3> QED BY <3>1, <3>2, <3>3, ZenonT(60) DEF PublishInv, FinalOK, Says, Checked
  <2>2. ASSUME NEW h \in Reqs, Step(h) PROVE PublishInv'
    BY <2>2, InitPublishStep, PublishRawStep, SaveExtraStep, ReNameStep, PublishDataStep, ToContractStep, CutStep,
       WriteExtraStep, CloseStep, ReadOfferStep, SaleStep, FailsStep DEF Step
  <2> QED BY <2>1, <2>2, MineStep, CrashStep DEF Next
<1> QED BY <1>1, <1>2, PTL DEF Spec

\* The types of the variables.
THEOREM PublishTypes == Spec => []TypeOK
<1>1. PublishInv => TypeOK
  BY DEF PublishInv, PublishType, TypeOK, FolderType
<1> QED BY <1>1, PublishInvariant, PTL

\* InitPublishDataAPIHandler, PublishDataAPIHandler and a stop of the process at any file
\* step leave every folder under its final name complete, or with an extra.json that
\* cannot be read.
THEOREM FinalIsComplete == Spec => []FoldersComplete
<1>1. PublishInv => FoldersComplete
  <2> SUFFICES ASSUME PublishInv, NEW r \in Roots, folder[r].there
               PROVE  /\ folder[r].root = r /\ folder[r].mode = arg[folder[r].by].mode
                      /\ IF folder[r].extra.ok
                         THEN /\ folder[r].extra.price = arg[folder[r].by].price
                              /\ folder[r].extra.subModes = arg[folder[r].by].subModes
                         ELSE crashes > 0 \/ \E h \in Reqs : pc[h] \in Writers /\ arg[h].root = r
    BY DEF FoldersComplete, Writers
  <2>1. FinalOK(r)
    BY DEF PublishInv
  <2> QED BY <2>1 DEF FinalOK, Says
<1> QED BY <1>1, PublishInvariant, PTL

\* Every trade preAliceTx agrees to is one the seller offered when the data was
\* initialised, for no less than its price, and one AliceAcceptTx dispatches.
THEOREM SalesAreServed == Spec => []SoldIsServed
<1>1. PublishInv => SoldIsServed
  BY DEF PublishInv
<1> QED BY <1>1, PublishInvariant, PTL

\* reNameFolder never replaces a folder, and publishing rewrites extra.json only: who
\* initialised a data file stays the same from then on.
THEOREM OffersAreStable == Spec => OfferIsStable
<1> DEFINE Kept == \A r \in Roots : folder[r].there => folder'[r].there /\ folder'[r].by = folder[r].by
<1>1. PublishInv /\ [Next]_vars => [Kept]_vars
  <2> SUFFICES ASSUME PublishInv, Next PROVE Kept
    OBVIOUS
  <2>0. folder \in [Names -> FolderType]
    BY DEF PublishInv, PublishType
  <2>1. CASE UNCHANGED folder
    BY <2>1
  <2>2. ASSUME NEW h \in Reqs, NEW f, folder' = [folder EXCEPT ![h] = f] PROVE Kept
    BY <2>0, <2>2, Apart
  <2>3. ASSUME NEW h \in Reqs, CutExtra(h) \/ WriteExtra(h), folder' # folder PROVE Kept
    <3>1. PICK r \in Roots : r = arg[h].root
      BY <2>3, OwnFacts DEF BackOK, CutExtra, WriteExtra
    <3>2. PICK e : folder' = [folder EXCEPT ![r] = [folder[r] EXCEPT !.extra = e]]
      BY <2>3, <3>1 DEF CutExtra, WriteExtra
    <3>3. folder[r] \in FolderType
      BY <2>0, Apart
    <3>4. [folder[r] EXCEPT !.extra = e].there = folder[r].there /\ [folder[r] EXCEPT !.extra = e].by = folder[r].by
      BY <3>3 DEF FolderType
    <3> QED BY <2>0, <3>2, <3>4, Apart
  <2>4. ASSUME NEW h \in Reqs, ReNameFolder(h) PROVE Kept
    <3>1. CASE UNCHANGED folder
      BY <3>1
    <3>2. CASE /\ ~folder[folder[h].root].there
               /\ folder' = [folder EXCEPT ![folder[h].root] = folder[h], ![h] = NoFolder]
      <4>1. PICK q : q = folder[h].root
        OBVIOUS
      <4>2. \A r \in Roots : r # q => folder'[r] = folder[r]
        BY <2>0, <3>2, <4>1, Apart
      <4> QED BY <3>2, <4>1, <4>2
    <3> QED BY <2>4, <3>1, <3>2 DEF ReNameFolder
  <2>5. ASSUME NEW h \in Reqs, InitPublish(h) \/ PublishRawData(h) \/ SaveExtra(h) PROVE Kept
    <3>1. CASE UNCHANGED folder
      BY <3>1
    <3>2. CASE \E f : folder' = [folder EXCEPT ![h] = f]
      BY <2>2, <3>2
    <3>3. ASSUME PublishRawData(h) PROVE UNCHANGED folder \/ \E f : folder' = [folder EXCEPT ![h] = f]
      <4>1. CASE folder' = [folder EXCEPT ![h].by = h, ![h].mode = arg[h].mode, ![h].root = arg[h].root]
        <5>1. folder' = [folder EXCEPT ![h] = [folder[h] EXCEPT !.by = h, !.mode = arg[h].mode, !.root = arg[h].root]]
          BY <2>0, <4>1, Apart
        <5> QED BY <5>1
      <4> QED BY <3>3, <4>1 DEF PublishRawData
    <3>4. ASSUME SaveExtra(h) PROVE \E f : folder' = [folder EXCEPT ![h] = f]
      BY <3>4 DEF SaveExtra
    <3>5. ASSUME InitPublish(h) PROVE UNCHANGED folder \/ \E f : folder' = [folder EXCEPT ![h] = f]
      BY <3>5 DEF InitPublish, savePublishRawFile
    <3> QED BY <2>5, <3>1, <3>2, <3>3, <3>4, <3>5
  <2> QED
    BY <2>1, <2>3, <2>4, <2>5
       DEF Next, Step, Mine, Crash, PublishData, PublishToContract, CloseData, closeDataAtContract, WithdrawFromData,
           ReadOffer, CheckOnSale, AcceptSale, Fails
<1> QED BY <1>1, PublishInvariant, PTL DEF Spec, OfferIsStable
=============================================================================
