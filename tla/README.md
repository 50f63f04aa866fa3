# zkPoD-node: a TLA+ verification project

zkPoD-node trades data between a seller (Alice) and a buyer (Bob). Alice publishes
data under a Merkle root; Bob connects to her node, the two agree on one of ten
trading modes, Bob receives the data encrypted, signs a receipt, and Alice reveals
the key in a transaction of the exchange contract, which pays her from a deposit Bob
made beforehand. The project models the transport, the session protocol, the
transaction programs with their files, rows and contract calls, the bookkeeping of the
deposit, the publication of data and the start-up of a node. It checks them with TLC
and proves, with TLAPS, every safety property that holds on the runs.

## 1. Inventory

| Component | Source | State | Operations |
|---|---|---|---|
| Session and transaction protocol | `net/node.go`, `net/session.go`, `net/tx.go`, `net/state.go` | `Node.state`, `Node.session` | `Send..`/`Recv..` methods, each with a pre- and a post-state; `Close` |
| Drivers of the protocol | `connection.go`, `api.go` (`BobPurchaseDataAPIHandler`) | `AliceConnParam`, `BobConnParam` | `AliceAcceptTx`, `preAliceTxAndConn`, `preAliceConn`, `preBobConn`, `BobCreateSess`, wrappers around the Node methods |
| Modes | `connection.go`, `seller_tx.go`, `net/node.go` | none | `modeToInt`, `modeFromInt`, `preAliceTx`, `isOTMode`, dispatch |
| Seller's programs | `seller_tx.go` | `Transaction`, `AliceTxMap`, table row | ten `AliceTxFor..` |
| Buyer's programs | `buyer_tx.go` | `BobTransaction`, `BobTxMap`, table row | ten `BobTxFor..` |
| Deposit lock | `contract.go` (`calcuDeposit`), `seller_tx.go` | `DepositLockMap` | compare and add; deferred subtract |
| Deposit API | `api.go`, `contract.go` | the deposit in the contract, `GAdminAuth.Value` | deposit, undeposit, withdraw |
| Contract calls of a trade | `contract.go` | record of the key in the contract | `submitScrtFor..`, `readScrtFor..`, `claimToContractFor..` |
| Tables | `db.go` | SQLite rows | insert, update, select |
| pod library wrappers | `plain_*.go`, `table_*.go` | library sessions, files | sessions, requests, responses, receipts, verification |
| Publication | `api.go`, `contract.go`, `file.go` | folder of the data, publication in the contract | init, publish, close, withdraw, sale |
| Settlement | `api.go`, `contract.go`, `db.go` | row of the sale | `AliceWithdrawFromTx`, `settleDeal` |
| Configuration and start-up | `init.go`, `main.go`, `api.go` | `BConf`, `ETHKey`, `GAdminAuth`, clients | load, reload, start Alice's node |
| rlpx transport | `net/rlpx` | keys and secrets, frames, bytes left | `Handshake`, `Read`, `Write` |

How they interact. `AliceStartNode` gives every connection a goroutine, which runs
`AliceAcceptTx`; on the other side an HTTP handler runs `BobPurchaseDataAPIHandler`.
Both drive a Node through the session handshake and then run the program of the
agreed mode. The programs meet in the messages of the connection and in the contract,
which Alice writes to once and both then poll. Goroutines of one process share
`AliceTxMap`, `DepositLockMap`, `GAdminAuth` and the database, none under a lock.

What is hard here:

- **Order.** Every Node method works only in one state. Bob considers a session
  established once he has *sent* his echo of the ack, Alice only when she has
  received it; in the OT modes six more messages follow.
- **Encodings.** Mode, sub-mode and OT flag travel as one number. The session number is
  drawn in decimal, parsed as hexadecimal, sent as an integer and printed with `%x`.
- **Failure.** A program has two dozen calls that can fail, each with a status of its
  own, and deferred functions that must undo what was done. A process may stop in
  between, and nothing resumes its trades.
- **Time.** Reads have a 30 s and writes a 20 s deadline; the polls for the key stop
  after 20 rounds; receipts live for 10 h, an undeposit is due after 8 h, and 600 s are
  kept as a margin. The chain keeps none of these promises.
- **Shared state.** `DepositLockMap` is compared, read and written by concurrent
  goroutines. `GAdminAuth.Value` carries the amount of a transaction from the function
  that sets it to the transactor. `ETHKey`, `BConf` and the started flags are read by
  trades and `SetupNode` while a reload replaces them.
- **Files.** The programs hand everything to the library in files named by convention,
  in a directory named by a random number, and the same folders are written by
  initialisations and publications while buyers' requests read them. A file is created
  first and written later.
- **Boundaries.** A packet and its code must just fit a frame of 24-bit length; a part of
  a message is counted down in an unsigned integer.

The properties that make each part correct: the two ends never meet a protocol error
and agree on what they trade; a key leaves only for a correct receipt and only over a
deposit that pays for it; what a table row says happened did happen; a library call gets
the file its peer's call made; a message arrives whole and in order or not at all; a
buyer is never shown half-made data; a node restarts as the account and with the
configuration it had; everything ends and releases what it held. `PROJECT.json` lists the hazards one by one with the
properties aimed at them.

## 2. Modules

| Module | Models |
|---|---|
| `PodModes` | the modes, their conversions, Alice's choice and both dispatches |
| `PodNet` | one connection: two Nodes, the programs that drive them, the stream between |
| `PodNetProofs` | theorems about `PodNet` |
| `PodPrograms` | the twenty transaction programs as lists of calls with their statuses |
| `FairExchange` | what a trade promises: one key for one promise, records that are true and final |
| `PodTrade` | one trade: both programs, both rows, deposit, key and clock; implements `FairExchange` |
| `PodTradeProofs` | theorems about `PodTrade` and the order of the calls in the programs, and its refinement of `FairExchange` |
| `DepositLock` | several trades of one buyer on one deposit |
| `MsgChannel` | what the transport promises: messages whole, once, in order |
| `RlpxStream` | one direction of a connection, frame by frame; implements `MsgChannel` |
| `RlpxHandshake` | the handshake of a connection, with symbolic cryptography |
| `RlpxConn` | a connection: `RlpxHandshake` and then `RlpxStream` |
| `RlpxConnProofs` | theorems about `RlpxStream` and `RlpxConn`, the refinement of `MsgChannel` by both among them |
| `PodLibrary` | the wrappers of the pod library: calls, files, receipts and signatures |
| `PodFiles` | the files and values of several trades at a time |
| `PodFilesProofs` | theorems about `PodFiles`: the wrappers, the order of the calls, the files |
| `TxTables` | both transaction tables, the transaction maps and the settlement |
| `TxTablesProofs` | theorems about `TxTables` |
| `AdminAuth` | the amount of the shared transactor under concurrent calls |
| `DepositProofs` | theorems about `DepositLock` and `AdminAuth` |
| `PodPublish` | the life of a publication under concurrent requests |
| `PodPublishProofs` | theorems about `PodPublish` |
| `NodeStart` | start-up, configuration, keystore and reload |
| `NodeStartProofs` | theorems about `NodeStart` |
| `MC..` | instances for TLC |

`PodNet` and `PodTrade` are two views of the same trade. `PodNet` has the messages one
by one and stops where the receipt is exchanged; `PodTrade` takes from it that a
message reaches the call that waits for it, and adds everything around: library,
database, contract, time. `PodTrade` runs the program of one mode on both sides,
which is what `SameTrade` establishes. `DepositLock` opens up the single step
`CalcuDeposit` of `PodTrade`.

Under `PodNet` lies the transport: its `inbox[r]` is a `MsgChannel`, and `RlpxStream`
implements `MsgChannel`. `RlpxConn` puts `RlpxHandshake` before the stream. Beside `PodTrade`, two modules
run the same programs (`PodPrograms`) for what they do to other state: `PodFiles` for the
files and values, `TxTables` for the rows. `PodPublish` is where the offer of
`PodNet` comes from, `NodeStart` where the keys and the listening node come from, and
`AdminAuth` opens up the transactions of `PodTrade` and `PodPublish`.

### PodNet and the code

`pc[r]` is the Node method that r's program calls next. An action is that call with
its state check, its effect on `Node.state` and `Node.session`, and what the program
in `connection.go` does with the result up to the next call: `RecvSessionRequest`, for
instance, ends with `preAliceTx` having chosen the parameters. An error ends the
program (`Abort`); it closes Alice's end always, and Bob's only after `preBobConn` has
returned, because his handler defers the closing later. `outcome[r]` says which error
it was. `inbox[r]` is the stream towards r; `Break` cuts it and loses what is in
flight, `Fail` is any local error (file, library, decoding, a deadline that passes while
the peer is at work), `PeerGone` the error or the deadline of a call whose peer will not
answer any more.

Abstracted: the payload of a transaction message, the Merkle root (always the one that
was asked for), signatures and encryption. A session number is the number its decimal
digits denote; `ParseHex` and `PrintHex` convert between that and the number on the
wire.

### PodTrade and the code

`todo[r]` is what is left of r's program. A step is one call: it succeeds and sets the
status the program sets, or it fails and the program returns with the status of the
failure, after which `Return` is the deferred update of the row. Alice's programs run
inside `AliceAcceptTx`, whose insert and library session come first and leave the row
alone when they fail. The price of a receipt is Bob's own count times the unit price,
hence a choice; `CheckPrice` compares it with Alice's. `checkDeposit` is called and not
obeyed, as in the code. `genuine` is the library's verdict on the key: a bad one sends the
complaint programs to `BobClaim` and ends the others.

External, modelled from how the code uses it: the contract takes the price from the
deposit when the key is mined, or reverts (`Mine`); the clock (`Tick`); the end of a
process (`Crash`).

`Exchange` is `FairExchange` under a refinement mapping: a promise is a receipt that Bob
has sent over the price Alice computed, the key is the record of the contract, and what a
side records is read off its row (`Sale`, `Purchase`). Rows that make no promise, the
empty one, `start` and the statuses between receipt and key, leave their side open.

### DepositLock and the code

Every connection has its goroutine, so any number of trades runs at once. `calcuDeposit`
is four steps: read the deposit, compare, load and store. The deferred subtraction is a
load and a store. `Abandon` stands for every early return between the lock and the
submission, `Settled` for the end of the poll, `GiveUp` for its running out while the key
is unmined, `Crash` for a restart, which creates the map empty. The buyer does not
undeposit in this module.

Nothing in the code keeps these steps apart, so neither does the model. Two history
variables, which no step reads, say what went wrong: `raced`, that the sections of two
trades (`calcuDeposit` from its read to its store, the release from its load to its
store) have overlapped since the start of the process, and `orphan`, that a key was left
to be mined without a lock, by a restart or by a poll that ran out. The properties say
that everything is right until one of them happens, and so that nothing else can go wrong:
a mutex around the two sections would be enough. `Total` is the sum of the prices of a set
of trades, given by its defining equations.

### RlpxStream, MsgChannel and the code

A message is two `Write`s, header and payload; a `Write` is a frame that announces the size
and then packets. An action is one frame: `writeSize`, one round of `writeData`,
`readSize`, one round of `readData`, the last of which ends in what `net/node.go` does with
the bytes (`ReadDone`: decode a header, or compare the length and return the message).
Bytes are abstracted to their origin: a frame names its message, part, offset and
size, and the reader's buffer is clean as long as it is a prefix of one part. Whatever
is read into an unclean buffer decodes to anything. Faults are a source that has become
short, a deadline inside a frame, a damaged frame, a lost tail of the stream and
a slow peer. Subtractions are made modulo the word, as in the code.
`IsChannel` maps `sent` of the channel to the messages that were written to the end.

### RlpxHandshake and the code

Each action is one message of `Connection.Handshake` and `doEncHandshake`: the random
request, the signed acknowledgement, the EIP-8 authentication and its response. A key
also stands for its public key and address; a signature names its signer and content, a
sealed packet the key that opens it and the length of its padding. Which node listens
at the TCP address is a free choice of `Init`.

### RlpxConn and the code

Each end goes on from the handshake to its messages when its own `Handshake` has
returned (`buyNewConn`, `AliceNewConn`). The listening end is done first, so it may read
while the dialling end still waits for the last packet, or has failed on it;
`Abandoned` is the read deadline it then runs into. The direction modelled is the first one
used, from buyer to seller. Faults of both phases draw from one budget.

### PodLibrary, PodFiles and the code

`PodLibrary` is the table of the wrappers: for a program, a side and a step, the
library call, the files it reads and the files it writes; how many units each side
counts; and which fields a receipt, a secret and a signed tuple of each family have.
`PodFiles` runs the programs over these tables: a file remembers which call of which
trade made it and with which fields. A side makes its directory and then all the calls of
its program (`FileProgram`); those that leave files and values alone are one action
(`Pass`), and a secret the library rejects replaces the rest of Bob's program (`Reject`),
as in `PodTrade`. Ids are drawn freely from a small set, so that
two trades collide; `os.Mkdir` refuses the second.

### TxTables and the code

A trade of either side makes its directory, enters the map, inserts its row, runs, and
updates the row from its own copy. `Update` of xorm skips zero columns. The seller counts
the request: the count may come to none, for an empty demand (`Price`) or because the
request cannot be read (`CountFails`), over a row that was inserted with a count of one.
When the seller's library session cannot be made no program runs, and the row and the map
entry stay as they are (`NewSess`). Columns that all
functions treat alike stand together. Three functions of `db.go` are called by nothing
and are left out of the actions: `loadAliceTxListToDB` reads the table of purchases,
`loadLogListByOperatorFromDB` asks for a column that does not exist, and the unit price
of a purchase is never inserted, only updated.

### AdminAuth and the code

The module's own names (`AuthSpec`, `AuthNext`, `step`) differ from those of `DepositLock`
so that one module can hold the theorems about both. A payable call sets `Value`, the transactor reads it when it makes the transaction, a
deferred function resets it; the other calls only read. `alone` records whether another
payable call was open between the beginning of a call and its transaction.

### PodPublish and the code

Every HTTP request is a handler; a step is a file operation or a contract call. The
initialisation works in a folder of its own (a timestamp) and renames it to the merkle
root; publication reads `extra.json` and writes it back in two steps, create and write. A
write that fails there is only logged (`api.go:408`), and the file stays cut; every other
failure ends the handler where it is (`Fails`). A sale (`ReadOffer`, `CheckOnSale`,
`AcceptSale`) is `preAliceTx` up to the acceptance, with its reads of the folder and of
the contract apart.

### NodeStart and the code

`main` is the progress of the program from its arguments to the two threads, `node` that
of `SetupNode`. A reload is a handler that checks the flags, decrypts the keystore,
connects, assigns `GAdminAuth`, then `ETHKey`, and saves what `BConf` was when the save
began; the save may fail before or after it has cut the file. A purchase reads `ETHKey` three
times. `Stop` ends the process at any step and leaves the files as they are: a
file that is being written is cut.

## 3. Runs

| Run | Result | Shows |
|---|---|---|
| `podnet` | pass | `TypeOK`, `NoProtocolError`, `SessionAgreement`, `SameTrade`, `Completes`, `BothEnd` |
| `podtrade` | pass | `KeyNeedsReceipt`, `RecordedAsDelivered`, `RecordedAsFailed`, `KeyHasRow`, `IsExchange`, `TradeEnds` |
| `podtrade_paid` | violation | a key mined after Bob's last look is paid and never delivered |
| `podtrade_deposit` | violation | the answer of `checkDeposit` does not stop the key |
| `depositlock` | pass | `LockExact`, `RefusedWhy`, `AllReleased` with three trades at a time |
| `depositlock_race` | violation | `KeyPaid`: the deposit may be promised twice |
| `rlpxconn` | pass | `PeerIsDialled`, `HeardIsDialled`, `NoSpuriousRefusal`, `IsChannel`, `NoWrap`, `NoSpuriousFailure`, `Ends`, `Arrives` |
| `podfiles` | pass | `InputsMatch`, `DirOfOneTrade`, `SidesAgree`, `Delivers` in all ten programs |
| `txtables` | pass | `OneTradePerRow`, `RowIsTrade`, `SettlesItsSale` |
| `adminauth` | pass | `AloneIsExact`, `NoStrayAmount` |
| `podpublish` | pass | `FoldersComplete`, `SoldIsServed`, `OfferIsStable` |
| `nodestart` | pass | `StartsAsSaved`, `AccountIsKept`, `TradeOneKey`, `Listens` |

Every module states the types of its variables in `TypeOK`. The runs check it where theorems
or invariants lean on it (`podnet`). It is proved for every module except
`RlpxHandshake`, where it documents the state.

**podnet** (about 136,000 states). `NoProtocolError`: no wrong state, type, mode or
number, in any of the ten modes, with any of two faults at any point. `SessionAgreement`
and `SameTrade`: two ends past the handshake hold the same session and run the same
program with the same price and directory name. `Completes`: without faults every trade
that is not refused reaches the receipt and is closed on both sides. A trade is refused
for the offer and the request, and also when `newSessID` draws 0, which
`RecvSessionAck` takes for a new session. `BothEnd`: with faults, nobody hangs.

**podtrade** (about 514,000 states). `KeyNeedsReceipt`: requirement {2} of the
repository's README. `RecordedAsDelivered` and `RecordedAsFailed`: a row that says
closed, claimed or read has a mined key behind it, and a row that says the trade
failed early has none, then or later. The statuses in between (`start` after a crash,
`secretFailed`, `receipted`) make no promise, and the run `podtrade_paid` shows why.
`KeyHasRow`: a key on the chain has a row, which the withdrawal looks up. `IsExchange` is
the refinement of `FairExchange`. It adds to the invariants what only a history shows: a
key is revealed once, a promise is not taken back, and no record is written over, which a
process that took its trades up again after a restart would do (the mutant `CrashResumes`).

**depositlock** (about 805,000 states). `LockExact`: until two sections overlap the entry
is the sum of the prices of the trades that hold it, whatever fails and across restarts.
`RefusedWhy`: the contract refuses a key only after an overlap or for a key that was left
without a lock. `AllReleased`: every trade ends, and nothing stays locked unless sections
have overlapped; then a lost update may leave the entry too high or too low for good, and
the code has nothing that would repair it. `KeyPaid`, that without a restart or a poll
that ran out no submitted key is refused, is what the repository promises, and it is false
in the same model: `depositlock_race`.

**rlpxconn** (about 147,500 states). `PeerIsDialled`: a handshake succeeds only with the node
the buyer was told of. `HeardIsDialled`: what the seller's end accepts as a frame came
from that connection's buyer, under secrets that mirror each other. `NoSpuriousRefusal`:
with the right node and no fault no handshake fails. `IsChannel` is the refinement: a received message
is the next one written to its end, with its own type, length and bytes. `NoWrap`: the
count of `readData` never goes below zero. `NoSpuriousFailure`: packets fit frames, sizes
are the expected ones, no frame is taken for one of another kind. `Ends`: nobody waits for
ever in the handshake or for a peer that failed in it. `Arrives`: a message that was written
is received, or the reader's end fails; and when the writer has failed, in the middle of a
message too, the reader's end fails.

**podfiles** (about 172,000 states). `InputsMatch`: the file
a library call is about to read was made by the matching call of the same trade and
has the fields of the program's family. `SidesAgree`: both sides reckon the same price
and the tuple that is verified is the one that was signed. `Delivers`: without a fault the
trade ends with the data, or with the claim when the key is bad, unless its buyer has
another trade with the same session number. `DirOfOneTrade`: numbers that collide never mix two trades.

**txtables** (about 892,000 states). `OneTradePerRow` and `RowIsTrade`: a row belongs to
one trade and ends as its program left it, except that a sale whose count came to none
keeps the count of one it was inserted with (`BookedAs`). `SettlesItsSale`: a settlement names a
complaint sale with its parties.

**adminauth** (about 64,000 states). A call
without overlap sends what it was asked to, and an amount never comes from a call that has
ended. Calls that do overlap may swap amounts (see the findings).

**podpublish** (about 1,530,000 states). `FoldersComplete`: under its final name a folder is
complete and of one origin, but for an `extra.json` whose write-back is under way, failed
or was stopped. `SoldIsServed`: what is sold has a program and is what the maker of the
folder offered, in mode and sub-mode and for no less than the price. `OfferIsStable`: the folder is not replaced.

**nodestart** (about 892,000 states). `StartsAsSaved`: a start without arguments has the
saved configuration or none. `AccountIsKept`: an account that has traded is in a file.
`TradeOneKey`: a purchase that begins once the buyer's side has started connects, is recorded and
signs with one key, and sends its transactions with it too when reloads come one after the
other, as the one of this run does. `Listens`: the node comes to listen. Deadlock is not
checked here because a configuration file that was cut stops every later start.

### Findings

Shown by a run:

- `seller_tx.go:478` and its siblings test the error of `checkDeposit` and not its
  answer, though the branch reports "deposit is not enough or expired"
  (`podtrade_deposit`).
- `contract.go:286`: after 20 rounds Bob's program gives up for good; a key mined later
  is paid for and never read (`podtrade_paid`).
- `contract.go:802` and `:811`: the comparison and the addition are not one step
  (`depositlock_race`).

Met while reading and modelling, present in the models and not the subject of a run:

- `net/tx.go:158` and `:162` give `TxResponseWait` as the post-state of `RecvTxRequest`;
  the code (`:180`) and the diagram above it have `TxRequestRecvd`.
- `contract.go:123`: status 0 means on sale and is also what the contract returns for data
  it has never seen, so initialised data is sold before and without its publication.
- `db.go:122` and its siblings: the structs of the plain programs are used for the table
  mode and the other way round, so a purchase's demands are stored empty.
- `connection.go:111` and `db.go:631`: a sale whose count comes to none, an empty demand or
  a request that cannot be read, keeps the count of one in its row, because the update
  skips zeros.
- `contract.go:811` and `seller_tx.go:195`: `+=` and `-=` on the entry are a load and a
  store, and an update that is lost there stays in the entry until the next restart.
- `seller_tx.go:109`: the status is read before the trade is accepted, so data that is
  being closed meanwhile is still sold.
- `api.go:408`: a publication whose `extra.json` could not be written answers success;
  after that neither a buyer's request nor another publication can read the file, and a new
  initialisation is refused by the folder that is there.
- `contract.go:147`: the amount of a transaction is a global field, set without a lock.
- `api.go:88`: the started flags are checked long before the key is replaced, so a reload
  that overlaps the start may replace the key of a node that listens.
- `api.go:134` and `:140`: a reload sets `GAdminAuth` (in `ConnectToProvider`) and then
  `ETHKey`, with nothing to keep a second reload out in between. Two that overlap may set
  them in opposite orders, and the node then signs receipts as one account and sends
  transactions as another. The attempt to prove `TradeOneKey` for any number of reloads
  showed it; the property states it for reloads that come one after the other.

### Bounds

- `podnet`: one connection (a Node shares nothing with another one). Offers have every
  list of up to two of three sub-modes, and the fourth alone: enough for the requested
  one to be first, second or missing. The session numbers are 0, a digit, the first
  number with two digits and one with four. Two faults: one on each side, or a broken
  connection and a failure.
- `podtrade`: prices 0 and 1 against a deposit of 0 or 1 tell right from wrong prices
  and deposits. Time counts in margins; with a period of 1 and a life of 2 the clock
  passes the end of the undeposit and the expiry of a receipt. One round of polling has
  the looks before, between and after the mining. One fault: everything a side does
  after one is to end.
- `depositlock`: three trades of prices 1, 1 and 2, all at once, on a deposit of up to 3,
  with two faults: the deposit covers each, some pairs and never all; one trade may be in
  its section, a second one about to enter and the third one holding.
- `rlpxconn`: three keys (buyer, seller, another node) and one padding: the lengths the code
  draws are all accepted alike, which `NoSpuriousRefusal` needs one of. Packets of 8 bytes
  and frames of 10 with a code of 2, so that a packet just fits; payloads of nothing and of a
  packet and a byte, a header of 12 bytes is two packets. The word is 32. Two messages and
  two faults, in either phase. The proofs cover every other size, padding and set of keys.
- `podfiles`: two trades of each of the ten programs, which draw the same number, so that they
  collide when they share a seller or a buyer and do not when they share neither; one
  fault; demands and phantoms of different lengths, so that counting the wrong list shows.
  A rejected secret is taken with trades that share a party: it concerns its own trade
  only, and the proofs cover the rest.
- `txtables`: two trades of either side and two ids; own and new address, so that a key
  change shows; a price and a count that are zero, because zero columns are skipped. One fault.
- `adminauth`: three calls and two amounts: two that overlap and one that comes between.
- `podpublish`: one data file and four requests of any kind, one stop; two prices tell
  offers apart.
- `nodestart`: two addresses, keystore files and keys; one reload and one buyer,
  since the reload is the only writer beside the start-up; two faults.

Deadlock is not checked: these systems end.

### Fairness

`PodNet` and `PodTrade` assume weak fairness of each side's program: it is sequential
code whose every read and write carries a deadline (`net/rlpx/p2p/rlpx.go:94`, `:101`) and
whose polls are bounded. Nothing is assumed of the connection, the chain, the
clock, the user or the faults. `DepositLock` also assumes that a submitted key is
eventually mined or reverted, without which the wait would depend on the poll's bound,
which is a fault there. `RlpxConn` assumes that the handshake of each end and the reads of the seller go on when they can,
and that a read's deadline passes when the other end has failed, in the
handshake or later; nothing is assumed of the writer. `PodFiles` assumes fairness of each
side's program, as above. `NodeStart`
assumes it of the loop of `SetupNode`, with a listener that is refused only as often as the
bound on faults says; nothing is assumed of users.

## 4. Proofs

TLAPS checks every theorem for all values of the constants.

**PodNetProofs**: `TypeCorrect`, `ProtocolIsFollowed`, `SessionsAgree`, `TradesAgree`, for
any offers, requests, session numbers and any number of faults. The invariant has two
layers, because a connection is orderly only while it is alive. `AliceLocal` and
`BobLocal` tie the state of a Node and the few contents its inbox may have to the call its
program is at; they hold whatever breaks, since a break only empties inboxes and a
vanished peer only stops filling them. `Together` lists the 26 positions of two running
programs on a live connection with exactly the messages between them, the ones included
where Bob is one message ahead of the handshake. `AliceData` and `BobData` carry Alice's
choice to Bob's parameters, and `Unanswered` keeps Bob's inbox empty until there is a
choice. Together these make the next message the expected one; `ModeRoundTrip` proves that
`modeFromInt` undoes `modeToInt` on every mode Alice can choose. `TradesAgree` assumes
that `%x` undoes the hexadecimal parsing for the numbers drawn: that is a fact about
recursive functions over all naturals, which needs an induction the provers do not do; TLC
evaluates it on the numbers of the instance.

**PodTradeProofs**: `TypesKept`, `KeyForReceipt`, `DeliveriesAreReal`, `FailuresAreReal`,
`KeyIsRecorded`, for each of the ten programs, any price, deposit, periods and number of
faults. None of the properties is inductive: what makes them true is the order of the
calls in twenty programs, and a state shows only the calls that are left. `Guarded(s, a,
G)` says that in the rest `s` of a program a call `a` comes before every call of `G`; it
survives every call but `a`, and `a` itself establishes what it stood for. `AliceInv` and
`BobInv` are such alternatives: the check of the price is still behind the receipt of the
receipt, *or* the receipt is there; the submission is still behind the check, *or* the
price is right; what would record a delivery is still behind the poll, *or* the key is
mined. `AliceWhole` and `BobWhole` say that the programs begin in that order, and
`AlicePrograms` and `BobPrograms` prove it of all ten, part by part as `PodPrograms` puts
them together. A crash or a failure leaves no call, so it keeps the order, and what is
left to show is that no row was written too early.

`TradeIsExchange` is the refinement: every behaviour of a trade, faults and crashes
included, is one of `FairExchange`. The initial states correspond, and every step is a step
of the exchange or none: sending a receipt over the right price is the promise, the
submission the revelation, the mining the settlement, and the deferred update of a row the
end of its side. `TradeInv` gives each of them its guard; that a submission finds no key,
for instance, is that a program has no second one behind its first. One fact is added to
the invariant, `RowsOpen`: a program that still runs has not recorded a verdict, so that
what is recorded is final.

**DepositProofs**, the lock: `TypeCorrect`, `LockIsExact`, `KeysArePaid`, for any number of
trades at once, any prices, deposit and faults. The constants' assumptions are that prices
are naturals and that `Total` satisfies the equations of a sum (`TotalAssumption`); there is
none on the interleaving. Where `KeyPaid` fails (`depositlock_race`), `KeysArePaid` says
why: `RefusedWhy` leaves an overlap of two sections or an orphaned key as the only causes.
`LockExact` is not inductive. `Apart` says that no two trades are in their sections until
`raced`, `RegisterExact` that what an update has loaded is then still the entry. For the
payment, the trades that hold the entry are split into the paid and the unpaid (`Split`),
because mining a key takes its price from the deposit before the release takes it from the
entry. `Covered` says that the deposit has the prices of the unpaid, and that what
`calcuDeposit` has read is out of date by at most what was paid and is not yet released:
so the comparison errs on the safe side, a trade that passes it is covered when it stores,
and a key that is mined finds its price.

The shared transactor: `AuthTypesHold`, `FieldIsReset`, `AloneSendsAsked`,
`AmountsAreOpen`, for any set of calls and amounts. The invariant adds to the properties
that `Value` is nothing or the amount of an open call, and what it is while a single
payable call is open.

**PodFilesProofs**: `InputsMatchHolds`, `DirOfOneTradeHolds`, `SidesAgreeHolds`,
`TypesHold`, for any set of trades, sellers, buyers and ids, any demands, phantoms, unit
price and number of faults, and all ten programs, from `FilesAssumption` alone. Again
the properties say what is so when a call is made, and the reason is what was called
before. The invariant `Inv` has these parts:

- `DirsOwned`: a side that runs has its directory for itself. `os.Mkdir` refuses a second
  one, so two running sides with one node and one id are the same side, although ids
  collide freely. A side that was refused never runs.
- `FilesRight`, `WireRight`, `RecordRight`: `Right(t, name)` is the one content a file of
  that name may have in trade `t`; every file a running side finds, every part of a message
  and every record of the contract is the right one. `DirOfOneTrade` is kept beside
  them because the directories of sides that have stopped are still there.
- `InOrder`: `Needs(r, op)` is what a call needs to come before it, `Effect` what a call
  leaves behind, and `Ready` says that every call that is left has its needs among the
  effects that are there and the calls before it. A call that is next and ready finds what
  it needs; one that is made leaves its effect, so the rest is ready again. `Part` carries
  this over concatenation, and `AlicePrograms` and `BobPrograms` prove it for the twenty
  programs from their parts.

A query has no units to count, so its programs do not call `calcuCntfor..`; `Start` says
that for them the count is right from the beginning, and `Needs` marks the calls that only
a sale of data makes. `WrapperFacts` and `MessageFacts` are the facts about the tables of
`PodLibrary`, `SameCount` that the library's request holds the list Bob counted, and
`SubmitsSecret` that the tuple Alice hashes is the signed one in each of the four families.
What a count comes to is never needed, only that both sides fold the same list, so no
induction over lists is.

**RlpxConnProofs**, the stream: `TypesHold`, `CountNeverWraps`, `FailuresHaveFaults` and
`StreamIsChannel`, for any message types, lengths, packet and word sizes, number of
messages and of faults, from `StreamAssumption` (lengths fit the word, a packet and its
code fit a frame). The invariant gives every frame a position (kind, message, part,
offset) and says that the reader's position, the frames on their way and the writer's
position form one chain (`ChainInv`), as long as the end at that side of the chain has not
failed; that an intact frame tells the truth about its message (`FramesInv`); and that the
buffer is clean (`ReaderInv`). `WriteFrame`, `ReadFrame` and `FailInv` are the three ways
in which a step may change the chain; `StepInv` also says which of three things the step
does to the channel, from which the refinement follows.

The connection: `DialledIsReached`, `HeardFromDialled`, `RefusalsAreReal`, and the results
about the stream once more for `ConnSpec` (`ConnCountNeverWraps`,
`ConnFailuresHaveFaults`, `ConnIsChannel`), for any set of keys, whichever node listens at
the address, any of the paddings the code draws and any number of faults in either phase
(`PadAssumption`, `StreamAssumption`). `HandOK` says, for every pair of steps the two ends
can be at, what each knows and which messages are on their way, damaged ones included; the
properties are too weak to be kept by themselves, since who a peer is follows from a
signature made two steps before, and that secrets mirror each other from the packets both
ends have kept. Every action of the handshake has two lemmas: one about the values alone
(`After..`) and one that the step makes that change (`..Step`). `HeardInv` ties the phases
together: nothing is sent before the buyer's handshake is done. It is what makes the
stream's invariant apply, because the seller's end reads as soon as its own handshake is
done.

**TxTablesProofs**: `RowsNotShared`, `BooksAreTrue`, `SettlementsAreSales`, for any number
of trades, ids and faults. `RowIsTrade` speaks of programs that have returned; `TradeOK`
says what holds before: the directory of a trade is its own, its row names its parties,
and a column that is zero in the program's copy is in the row what `BookedAs` says, zero
or, for the count of a sale, one. The last is the point of the proof, because an update
skips zero columns, so a row that had more than the copy would keep it. `Asks` is any set
of naturals, none included. `RowsOwned` says that a row was inserted by a trade, so a settlement found
by its id is that of a sale. `OwnRowOnly` is the lemma that all steps use: two trades
never share a row, so a step of one leaves what the others know of theirs.

**PodPublishProofs**: `FinalIsComplete`, `SalesAreServed`, `OffersAreStable`, for any
number of requests, data files, prices and stops. `FillOK` is the folder of a request step
by step, until the rename makes it a final one; `FinalOK` is weaker than `FoldersComplete`
in the right place, for it keeps what `extra.json` says while it is being written back;
`BackOK` says that a publication will write back what it has read. `ChoiceIsServed` proves
that `preAliceTx` chooses a mode with a program from every list of sub-modes that passed
the check of the initialisation; `SaleOK` carries what was chosen, and that it was offered,
through the look at the contract to the acceptance. `OfferIsStable` is an action property and follows from
the same invariant.

**NodeStartProofs**: `SavedIsRead`, `AccountsAreKept`, `PurchaseOneKey`, for any number of
reloads, purchases, files, keys and stops. `KeptInv` says that the file an account is
about to be copied to holds no other one; `QuietInv` that a started buyer's side keeps
every reload behind its check, so that `ETHKey` stays what a purchase has read;
`OneKeyInv` that between the two assignments of a single reload the transactor has the key
that is about to be set.

The inductive invariants were checked by TLC, before they were proved, as invariants of
instances like those of section 3: `TradeInv` and `RowsOpen` on 514,000 states, the `Inv`
of `PodFilesProofs` on 172,000, `ConnInv` with two
paddings on 587,000, and those of `DepositProofs`, `TxTablesProofs`, `PodPublishProofs` and
`NodeStartProofs` on the instances of their runs.

Only model-checked:

- all liveness properties (`Completes`, `BothEnd`, `TradeEnds`, `AllReleased`, `Ends`,
  `Arrives`, `Delivers`, `Listens`): liveness under fairness is out of the prover's reach;
- the round trip of the session numbers, which `TradesAgree` assumes (see `PodNetProofs`).

## 5. Not modelled

- The cryptography of the pod library and of the transport: a call succeeds or fails, a
  signature or a sealed packet is symbolic.
- What a claim does in the contract: the code sends it and never looks at the outcome.
- The log table: rows are inserted and listed, and no decision depends on them.
- The contract bindings (generated), the command line, HTTP client and logger.
- The vendored p2p stack under `net/rlpx/p2p` (server, dialler, discovery, simulations):
  most of the lines of the repository, and none of it is ever started. The one file
  that is used, `rlpx.go`, is modelled with the transport.

## 6. Plan

Done: all modules of section 2 and the proofs of section 4. What could follow:

1. A composition of `PodFiles` and `PodTrade` on one `todo`, so that a file that is missing
   is the failure of a call there; the two run the same programs today.
2. The outcome of a claim in the contract, once the code looks at it.
3. `FairExchange` with a deposit, so that `RefusedWhy` of `DepositLock` becomes a part of what
   a trade promises, and `KeyPaid` once the code keeps the sections apart.
