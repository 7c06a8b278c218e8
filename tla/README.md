# Verification of the offline server

The repository rebuilds the online half of a mobile game so that it can be
played without its servers: a Python server under `src/work/offline` speaks the
client's binary protocol, keeps one player's save in `player.json`, and answers
every request by changing that save. This directory holds TLA+ models of that
server, TLC runs that check them on small instances, and TLAPS proofs of the
most important results for all instances.

Contents

1. The system: components, state, interactions
2. What is hard about it, and what makes each component correct
3. The modules and how they correspond to the code
4. The runs: bounds, results, fairness
5. Disagreements between the code and its documentation
6. The proofs
7. What is only model-checked, what is not modelled
8. Plan

How to run anything here: `tlc -workers 2 -config MCAccount.cfg MCAccount` checks one
run, `tlapm CombatProofs.tla` checks one proof module. `PROJECT.json` lists the
runs, one mutant of the code for each property (a plausible slip that the
property must catch), and for every definition the source lines it stands for.
Slips are defined in the modules next to the definition they spoil and are
marked as such; no specification uses them.

## 1. The system

### Processes and shared state

| Process | Code | Shared state it touches |
|---|---|---|
| Game server, one thread per connection | `tcp_server.py` | loads `player.json` once when the connection is accepted, then writes all of its copy after every request that changed it |
| HTTP login server, one thread per request | `http_server.py` | loads `player.json` on every GET; a load of an old save may write it |
| Save editor, run by hand | `edit_state.py` | loads, changes, writes `player.json` |
| The game client (external) | not in the repository | sends requests, shows answers and pushes, checks lengths wrongly |

Nothing locks `player.json`. Everything inside a connection is sequential: the
thread takes a frame, calls the chain of handlers on its copy of the save, and,
if the handler reports `mutated`, writes the whole copy through a temporary file
and then sends the answer and the pushes. That order (change memory, write,
answer) decides almost every question below.

### Components

| Component | State | Operations | Talks to |
|---|---|---|---|
| Framing (`tcp_server.py:60-135`, `:240-290`) | receive buffer, place in the parse loop | `recv`, the parse loop, `pack` with its padding | socket; `handle` |
| Sessions and dispatch (`tcp_server.py:115-238`, `combat_handlers.py:420-445`) | per thread a copy of the save; the request being answered | accept, login (which writes), changing, reading and declined requests, end of thread | handlers; save file |
| Save file (`player_save.py:278-366`) | `player.json`, `player.json.tmp`, inodes | `load_save`, `save`, and `normalize_save` in both | every process |
| Save editor (`edit_state.py`) | a loaded copy | load, edit, save | save file |
| Fights (`combat_handlers.py`) | `levelStates`, `passedLevels`, `activeFight`, `lastFightResult`, level, EXP, stamina | open, refuse, settle, settle again, settle unopened | dispatch, item transactions |
| Items (`state_transactions.py`) | `items`: rows of id, cid, count | count, add, consume by cid, consume by id, add equipment | called by all handlers |
| Shop and bag (`stateful_handlers.py`) | `storePurchases`, `stores` | buy, log of purchases, refresh, sell, use | items, the clock |
| Mails, tasks, sign-in (`stateful_handlers.py`, `sign_handlers.py`) | `mails`, `tasks`, `signInfos` | read, collect, delete; submit; sign | items |
| Summoning (`summon_handlers.py`) | per banner: counter since the last rare card, starter price used; heroes, equipment, items | pull one or several cards | items, heroes |
| Hero growth (`hero_progression_handlers.py`) | level, EXP, advancement, quality, skins | feed, advance, improve, change skin | items, player level |
| Angels (`angel_handlers.py`) | awakening, strengthening, breakthroughs, four skill pages | awake, strengthen, break through, learn, unlearn, equip, unequip, reset, use and rename a page | items |
| Formations and presets (`stateful_handlers.py`, `formation_backup_handlers.py`) | teams per type, preset lists | put in, take out, swap; show, change, apply a preset | heroes |
| Player profile and guide (`player_handlers.py`) | name, remark, guide step, group guides | rename, report a step or ask for it, finish a group guide | the Guide table |
| Dating (`dating_handlers.py`) | scripts seen, the script that runs | start a script, settle it on its last node | the client's dating layer |
| City dating (`city_dating_handlers.py`) | one row per town line: current step, entrances done | ask for a town; a won stage moves its line | called by the settlement of a fight |
| Friends and spirits (`progression_handlers.py`) | friend rows, gifts received; points, specialisms, new-spirit marks | eight friend operations; put points, clear marks, ask | dispatch |
| Static configuration | parsed Lua tables | read only | constants of the models |
| Protocol encoding | none | encode, decode one message | framing |
| Launcher, client patches, recon scripts, reference Lua | none in the server | tools run by hand | none |

`PROJECT.json` has the same list with the state of each part.

## 2. What is hard, and what makes each part correct

The code is small and mostly sequential, so its difficulties are few and sharp.

* **A copy of the save per connection, written whole.** Whoever writes last wins
  over everything, including changes the client was already told about. Correct
  means: what has been acknowledged stays in the file and in the copy of
  whoever serves the player (`AcknowledgedKept`), edits survive
  (`EditSurvivesRelog`), an answer is never ahead of the file (`ReplyBacked`),
  and a client that waits gets an answer (`EveryRequestAnswered`).
* **Memory changes before the write, and the write may raise.** Then the copy
  runs ahead of the file, and an answer stored in the copy may be replayed.
  Correct means: nothing visible waits to be saved unless a write has failed
  (`NothingUnsaved`), the file never goes back (`DiskKeeps`).
* **Settlements and claims are sent again.** A fight or a reward pays once
  (`FightsSettledOnce`, `FirstClearPaidOnce`, `PaidOnce`, and refinement of a
  ledger, `KeepsLedger`), and a repeated answer tells the truth
  (`StoredAnswerTrue`).
* **A temporary file with one fixed name.** Correct means: the file is always a
  whole document, and `save` is atomic (`MainWhole`, `ReadsWhole`,
  `SaveIsAtomic`).
* **Facts recorded twice.** A win is in a row and in a list
  (`RowsAgreeWithPassed`); spent skill points are in a counter and in the levels
  learned (`PointsAccounted`); the client's totals come from pushes that must
  not be left out (`ViewCurrent`).
* **EXP that passes several levels at once.** What was paid must be in the levels
  climbed and the EXP left, for the player (`ExpAccounted`) and for every hero
  (`LevelsEarned`).
* **Item arithmetic with repeated ids, split stacks and alternative prices.**
  All or nothing is taken, and nothing else changes (`BooksBalance`).
* **Limits counted per day, per refresh and for ever**, with midnight falling
  between two reads of the clock (`LimitsKept`).
* **Old saves, repaired at every load and every write.** The repair gives out
  currency, heroes and teams once; it must find nothing to do the second time,
  or every write would give again what was spent (`RepairIdle`).
* **State that follows what the player did, by several routes.** A town's step
  is moved by won stages and rewritten by every question for the town
  (`TownFollowsWins`); the guide's step jumps over rows and is reported out of
  order (`ReportsKept`); a shield hides what a player was (`ShieldKeeps`); the
  running story script is remembered for a request that does not name it
  (`SettlementNames`, refuted).
* **Long sequences of legal calls.** Pulls with a guarantee counter shared by
  two price bands (`PullsFair`, `DrawnIsOwned`), skill pages (`PassiveOnce`),
  teams and presets made of rosters that have changed (`TeamsValid`).
* **A byte stream cut anywhere**, a parse loop with three ways to give up, and a
  client whose own length check reads the wrong bytes (`HandledInOrder`,
  `NothingLeftBehind`, `RepliesPassGate`).

`PROJECT.json` lists each hazard at its line with the properties that cover it,
and says why where none does.

## 3. The modules

### The save file: SaveRegister, SaveFile, SaveFileProofs

`SaveFile` models `load_save` and `save` at the level of names and inodes.
`main` and `tmp` are the inodes the names `player.json` and `player.json.tmp`
point to; an inode holds two blocks, so that a document can be half written. A
saver opens and truncates the temporary file (`OpenTmp`), writes two blocks
(`WriteFirst`, `WriteRest`), and renames (`Replace`, or `ReplaceRaises` for
Windows, where the rename fails while someone has `player.json` open). A loader
opens an inode (`OpenMain`) and reads what the inode has by then (`FinishRead`),
so a rename under a reader is visible. `LoadMissing` is a load without a file,
which saves the default. `Stop` is the death of a process at any point;
`OneSaver` says whether savers take turns. `SaveRegister` is the abstract
promise: one register whose document is replaced in one step or not at all.

### Sessions: Server, ServerProofs

A save is the set of changes it contains, so that a lost one shows. `mem[c]` is
the copy of thread `c`, `disk` the file, `inbox[c]` the requests sent and not
handled, `reply[c]` the answer prepared and not sent. `HandleLogin` writes the
copy outside the `try` blocks (a failure there leaves the login unanswered);
`HandleChange` changes the copy, writes, and prepares the answer, or zeros if
the write raised; `HandleDeclined` is a handler returning `None`. `Drop` is the
client leaving (its unsent answers are lost), `Finish` the end of a thread,
`Crash` the death of the server. `EditLoad` and `EditSave` are `edit_state.py`.
`Overlap` and `EditOnline` choose whether the hazardous schedules are allowed.

### Framing: Wire, WireProofs

Bytes are counted, not stored. The client's stream is a sequence of frames given
by their start offsets `Start` and by `TokenOk` (does the frame begin with the
magic token?); the buffer is the stretch `head..tail`. `Receive(n)` is one
`recv`. The parse loop is `Starve` (fewer than the header), `BadToken` and
`BadLength` (both clear the buffer), `Partial` and `Handle`. `PackTotal` is the
length of a padded reply and `BogusLength` the number that the client's check
computes from the wrong bytes of it (external, taken from the comments of
`pack`). The insides of a frame are taken not to begin with the token by
accident.

### Fights and towns: FightRules, Combat, FightLedger, CombatLedger, CombatProofs

`FightRules` is the pure part: rows, costs, drops, the loop that spends EXP on
player levels (`ClimbStep` is one turn, `Climbed` all of them), what opening and
settling make of a save. `Combat` is the process:
`mem[c]` per connection, `disk`, `view[c]` (the totals the client shows),
`lag[c]` (a write failed on this connection), `shown` (wins the player has
seen). Actions are `Accept`, `Login`, `Close`, `Crash`, `OpenFight`,
`RefuseFight`, `Settle`, `Replay`, `SettleUnopened` and `TownInfo`, each with the
write and the pushes. The save has three ghosts: `bonus` counts first-clear
bonuses, `ledger` settlements per fight, `walked` the won stages of each town
line. `FightLedger` is the abstract specification: an account that opens fights
and settles each at most once; `CombatLedger` gives the refinement mapping.

City dating lives here because the settlement of a won stage calls
`advance_line` in the same write. `Advanced` is that call: the first entrance of
the current step that leads elsewhere decides the next step, and the entrances
up to it are done.
`TownInfo` is request 5633, which stores the step it shows, falling back to the
first step of the table if the stored one is unknown (`CurrentStep`,
`Visited`). The other four town requests change nothing: the row they might
create is the empty row that `_line` creates for everybody, which a line without
a row is here from the start. `StepAfter` says, from the table alone, where a
number of wins leads.

### Handlers seen from one connection: Copies and the modules on it

`Copies` says what every handler does with the save: `Answer(new, changed)`
makes `new` the copy in memory and writes it if the handler reports a change;
the write may fail at most `MaxBehind` times in a row. `Relog` loads the file
again (a reconnect or a restart), `LoginSave` is the write at login. On it:

* `Inventory`: `add_item`, `consume_cids`, `consume_items` over rows
  with an id, a cid and a number; an id may be a name that another cid took.
* `Store`: purchase records with three counters, refreshes of saved stores and
  of catalogue stores (which are copied for every request, so their counter is
  lost), sales and uses of bag rows.
* `Rewards`: mails, tasks, sign-ins. `Friends`: the eight operations on one row,
  applied to the players a request names. `Spirits`: the pool of points and its
  lines. `Profile`: name, remark, guide step, group guides. `Dating`: which
  scripts were started and which one runs.
* `Repair`: `normalize_save` with its migrations (schemas 3, 4 and 6): stocked
  items without a row, the one-time float, heroes without a skill page or an
  angel level, double and nameless hero rows, the starter hero and the first
  team, passed stages, the guide of players who are past it.
* `Account` composes these seven: one save with bag, purchase records, mails,
  friends and so on, repaired when it is loaded. `day` is the clock, read twice
  by a purchase; `story` is the client's dating layer, which keeps playing a
  script across a reconnect. The ghost `book` in the save keeps what answers
  charged, paid and counted, what a player stands for apart from shields, and
  what he reported.
* `Heroes`, `Angel`, `Summon`, `Formations` and `Growth`: the roster. `Growth`
  composes them: one save with bag, level, heroes, gear, banners, teams,
  presets and the ghost `book`. The field `wants` bounds the kinds of requests
  a start player makes.
* `SumFacts`, `InventoryProofs`, `AccountProofs`, `GrowthProofs`: lemmas and theorems
  (section 6).

A request that the code refuses or that changes nothing (an unknown id, a
configuration id that is not positive) is a step without effect and is left
out where it would only add a stutter; where a refusal has an effect (the row
made by an unopened settlement, the page made by a refused rename) it is in.
The packets of one answer are sent in one step, except that a write that raises
leaves out a handler's pushes: `Account` says so for stories (`Pushed`), where
the script itself arrives on a push.

Four readings of the code that the modules on `Copies` rest on. `save` repairs
what it writes but not the copy in memory; the models write the copy as it is,
and `RepairIdle` justifies that. The mirrors `gold` and `diamonds` are read only
for an item without a row (`coins`). A row of another item that stands under a
stocked item's own name is overwritten by the schema-6 migration, as in
`Raised`. A request that names one player twice counts him once, but one that
names a mail or a task twice does name it twice.

## 4. The runs

Twelve runs. Six pass; six refute one statement each that a document, a
comment or the name of a test makes about the program (section 5).

| Run | Instance | States | Question and answer |
|---|---|---|---|
| `combat` | one connection after another, 2 stages (the opening one free, the second behind it and playing a town of three steps), 4 player levels, 2 fights, stamina 3, sweeps of 0 or 2 | 74,000 | Do fights, settlements, resends, abandoned and unopened fights, level-ups, town steps, failing writes, relogs and crashes keep what a copy records about fights consistent, is all EXP paid in the player's level, and does the file ever lose any of it? Consistent; accounted for; nothing lost. |
| `save_file` | 3 savers in turns, loads and deaths at any point, 2 documents, 5 inodes | 18,000 | Is `player.json` always one whole document, and is `save` atomic? Yes, while saves take turns. |
| `server` | 2 connections, 2 changes, 1 read, 1 declined request, 1 edit, 2 sessions, writes that may raise | 85,000 | Does what was acknowledged stay, do edits made offline stay, is every request answered? Yes. |
| `wire` | 6 frames, the third too long, the fifth without the token, cut into every sequence of pieces | 336,000 | Are good frames handled in order, is none forgotten, do all replies pass the client's check? Yes. |
| `account` | 7 start players with saves of schemas 2, 3, 5 and 6; 3 goods with different limits, 2 stores (one saved, one from the catalogue), 2 days; 2 mails, 3 tasks, 2 sign-ins (one with two days open); 3 friends; 2 specialisms; a guide row that jumps; 2 stories | 121,000 | Do items and points balance, do limits hold over midnight, does everything pay once, do shields lose nothing, does the guide only move on, is anything visible left unsaved, and is a repaired save left alone by the next repair? Balanced, kept, once; nothing lost or unsaved; left alone. |
| `growth` | 5 start players, 2 banners, 3 heroes, 2 kinds of equipment, 3 skill nodes and 2 slots, teams and presets | 177,000 | Do pulls, training, angels, skill pages, teams and presets stay accounted for? Yes. |
| `shown_win`, `save_file_shared`, `server_overlap`, `server_edit`, `server_silent`, `dating_reconnect` | | | refuted, section 5 |

### Why the bounds are enough

* `MaxFights = 2` lets a fight be abandoned, and settled late, after a newer one
  was opened; two stages distinguish the stage that was settled last from the
  one open now. Level thresholds of 1, 2 and 1 EXP, 2 or 3 EXP for a first win
  and 1 or 2 for the second, make a settlement stop short of a level, land on a
  threshold, climb one level or two, reach the last one exactly and run past it.
* Three savers are two writers and a reader of the same moment; five inodes are
  as many as two names and three handles can hold, so a new file always finds a
  free one. Inodes are interchangeable and are declared symmetric; savers and
  documents are not (a document is the default).
* Two sessions are enough for every statement about "the old and the new copy";
  the refuting runs have three, so that the lost change can show. A crash, a
  drop and a failing write may each happen at any point of both.
* `MaxLen` is scaled from 4,000,000 to 14 and frame lengths to 10–17 bytes:
  frames of the minimum, one longer, and one above the limit; every receive of 1
  to 24 bytes is tried, so a frame may come byte by byte and two may come at
  once. Replies keep their real sizes: a body of 65,523 bytes is the one whose
  padding adds a whole unit.
* `MaxBehind = 1`: a copy that is one failed write ahead differs from the file
  by whatever a handler can do; a second failure in a row adds nothing a
  property tells apart, and the proofs of the fight and session models have no
  such bound (the number of fights, `MaxFights`, may be any there).
* `growth`: `TeamSize` is scaled from 3 to 2, presets from 7 to 2, used skill
  pages from 4 to 2. With two places and three heroes, a swap with a hero of the
  team, a swap with one outside, a removal and a hero who is not owned all
  happen. The second banner has no rare cards in its second band, so that the
  counter the bands share runs past a guarantee. Each start player is bounded to
  some kinds of requests (`wants`), because the parts of the save they touch
  meet only in the bag and the heroes' levels; the players overlap there.
* `account`: `wants` bounds each start player to one kind of request, as in
  `growth`; the kinds meet in the bag and in the write. The veteran's save has
  no hero, no team and a nameless hero row, the beginner's a double one, the
  spiritual player's lines without points; a shield from before `previousStatus`
  was recorded is among the friends. `Float = 1` lets a player spend the float
  and be repaired. `QueryFrom = 8` scales the threshold between guide reports
  and queries; reports come for the row that jumps, the row before it, and 0.
  `dating_reconnect` needs no failing write and has `MaxBehind = 0`, so that its
  counterexample is the reconnect alone.
* Dates only move forward, and by one day at a time.

### Fairness

Only `server` needs fairness: `FairSpec` is weak fairness of `Thread(c)` for
each connection. The code justifies it: a thread's loop (`Client.run`) blocks
only in `recv`; a receive timeout is swallowed and tried again; handlers hold no
lock and wait for nobody. So a thread with a request or an answer in hand is
never disabled and keeps running. Neither the client nor the editor is fair:
they may stop. `EveryRequestAnswered` therefore says that a request is answered,
or its connection is dropped, or replaced by a later session.

### Deadlock

The runs that set `CHECK_DEADLOCK FALSE` may really stop: a player without
currency, mails or open tasks has nothing left to do, a stream may end, and the
bounds on sessions and requests may be used up.

## 5. Disagreements between the code and its documentation

Found by runs of kind `violation` (`PROJECT.json` has the full texts and lines):

1. `shown_win` — a settlement whose write failed is answered with zeros; sent
   again, it is answered from the stored result without a write. The player sees
   the win; it is gone with the connection. The README says clears persist.
2. `save_file_shared` — all savers use one temporary name; under POSIX rules two
   concurrent ones leave `player.json` empty or half written, for as long as the
   second one writes and for good if it dies. A test calls the save atomic.
3. `server_overlap` — a thread whose client has already reconnected writes its
   older copy over changes the new session acknowledged.
4. `server_edit` — an edit made during a session is undone by the session's next
   write, before the relog the editor asks for.
5. `server_silent` — a handler that returns `None` "to stay silent" makes the
   server send the zero-filled body, for a pull nobody can pay for too.
6. `dating_reconnect` — starting a script that was seen before remembers it in
   memory and reports no change (`dating_handlers.py:79`, `:87`). After a
   reconnect while it plays, the settlement names an older script or is not sent
   at all, although the comment (`:77-78`) says the run is remembered there so
   that the settlement can name it, and the docstring of `dating_settlement`
   (`:95-97`) that without one the stage stands on its last line.

Noted while reading, without a run, because nothing in the documents is
contradicted by a behaviour or because the models abstract it:

* `tcp_server.py:101` masks the checksum with `0xFF7F`; README.md:155 and
  docs/PROTOCOL.md:71 write `0x7F7F`. The client never checks the sum (README.md
  says so).
* `edit_state.py --gold` and `--diamonds` have no effect: `normalize_save`
  computes both from the item rows when saving.
* A store that exists only in the catalogue is copied for every request, so its
  refresh counter is lost and its refreshes never get dearer
  (`stateful_handlers.py:382`, `:494-519`). `todayRefreshCount` is never reset
  at midnight (`:505`). Both are in `Store` as the code has them.
* The sign-in handler calls itself idempotent, but a repeated request signs the
  next open day (`sign_handlers.py:117-121`). `PaidOnce` does not catch this: it
  bounds the days paid by the days open, and a resend looks like a new request.
* Equipment above `gridMax` is shown in the answer to the pull and then cut
  (`state_transactions.py:190`); `DrawnIsOwned` states exactly that.
* Unlearning a node leaves nodes that need it, and the passive skill it
  unlocked, in place (`angel_handlers.py:274-278`).
* Swapping a hero of a team for one already in it drops a place
  (`stateful_handlers.py:241`), while presets exchange the two.
* A first preset that has been emptied is filled again from the main team.
* A refused rename of a skill page leaves the page's new, empty row unsaved;
  `NothingUnsaved` therefore compares what pages show.

## 6. The proofs

Eight modules hold proofs. All of them are about every value of the constants that
meets the named assumptions. The assumptions say no more than that
numbers are numbers, the absent values are not among the values, tables have
the entries the code looks up and are finite lists, ids in them are of the items
there are, the opening stage is a stage, and a save the player comes with has the
fields `load_save` reads with rows that have distinct ids. What else is assumed
of the game's tables is said below, with the module that needs it.

**SumFacts** — lemmas only, about numbers, finite sets and sums; `CombatProofs`
and `InventoryProofs` rest on it. *Induction over data.* The library's induction
theorems take an operator as a parameter, which the provers cannot instantiate;
the ones here take a *set* instead. `NumberInduction` (a set of numbers that
holds 0 and is closed under + 1 holds all of them) follows from the library's
facts that `<` is well-founded on the numbers and that a well-founded relation
has least elements, `SetInduction` from it by cardinality. *Folds.* The community
modules define sums and folds by a recursive function that is `CHOOSE`n;
`FoldExists` shows that there is one for any finite set and any step that stays in
a given set of values, `SumTakeOut` that a sum does not depend on the order in
which it is taken.

**InventoryProofs** — lemmas only, about the operators of `Inventory`;
`AccountProofs` and `GrowthProofs` rest on it. `LeftFoldWalks` says that a fold
over a list is the last of a walk of single steps; `ShrinkInduction`, that a
family of sets which has the empty set, and has every set all of whose subsets
with one member less it has, has every finite set. On these stand the facts about the
bag: `ConsumedTotal` (`consume_cids` takes exactly what was asked for, over any
number of stacks), `ConsumedIdsIs` (`consume_items`, with rows named several
times), `FreeId` and `AddItemIs` (`add_item` never gives a name twice and adds to
one cid only), `GrantedIs` (`grant_rewards` adds to each cid what all its lines
say).

**CombatProofs** — `TypeCorrect`, `CopiesCorrect`, `RowsTheorem`,
`FirstClearTheorem`, `SettledOnceTheorem`, `AnswerTheorem`, `ExpTheorem`,
`TownTheorem`, `ViewTheorem`: for any stages, prices, drops, any number of connections,
overlapping ones and failing writes included. The inductive invariant is not about the process at all: `SaveInv(s)`
holds of one save, and `IInv` says it holds of every copy, open or in
the file. Every action then either moves a copy (accept, write, crash) or
applies one of the pure operators to one, and the lemmas of the module show that
each operator preserves `SaveInv`. `SaveInv` needs more than the properties: that
an open fight is the newest and unsettled, and that the stored answer belongs
to a settled fight, or a resent settlement could pay again.

`ExpTheorem` (`ExpAccounted`) is conservation: the EXP that all fights in a copy's
ledger have paid is what the levels climbed cost plus what is left, until the last
level drops the rest. `ClimbStepIs` says what one turn of the loop of
`_apply_player_exp` does to that sum, `ClimbRests` by induction over the turns
that none of them changes it and that the player climbs no further after
`MaxLevel` of them (so the bounded walk is the whole loop), `ClimbedBalanced` that
a settlement adds exactly its EXP. On the other side `WonMore` adds the same to the
sum over the ledger. For that, `SaveInv` says that the line of a fight that is
not settled is empty (`UnpaidIsNothing`), and that the open fight is not settled: a fight
settled twice would break the balance.

`TownTheorem` needs `TownsGood`: a town's row names the step that its wins lead to
by the table (`StepAfter`), or no step at all, and then that step is the first; and the wins
are no more than the fights that are over, so the walk along the table is long
enough. `StepAfter` is a recursive function; `WalkExists` shows by induction
over numbers that there is one, `StepBehindIs` that the first way out of a step
leads to a step of the line. `AdvancedGood` is the comparison that matters:
`advance_line` looks for an entrance that leads anywhere but to the step the
*row* names, the table for one that leads anywhere but to the step the town *is at*.
The two differ as long as the row names none, which is why `TownsAssumption`
excludes an entrance that leads from a first step to itself: with one, where a
win leads would depend on whether the map had been asked for. That, and that an
entrance leads to a step of its own line, is a statement about the game's
tables, which are not in this repository.

`ViewTheorem` adds
that the totals a client was sent are those of its copy while no write of its
connection failed. `DiskTheorem` (`DiskKeeps`) needs that connections do not
overlap: then the open copy is never behind the file (`Alone`), and every
operator only adds to what `Keeps` compares.

`LedgerTheorem`: the fight model implements the ledger
of fights. Each step of a connection is a start, a settlement, a copy handed on,
or nothing for the books read through `BookOf`. `IInv`
is what makes a settlement one the ledger allows: the open fight is the newest
and unpaid, and a first-clear bonus is due exactly when the stage is not passed.
`NoBookAssumption` says that a closed connection's mark is not itself a book.

**AccountProofs** — `LimitsTheorem`, `ShieldTheorem`, `ReportsTheorem`,
`GiftsTheorem`, from `InvTheorem`: for any shop, prices, limits, friends, Guide
table and start saves of any schema. A copy is `Good` by itself: its
purchase records say what the book says for the day they were last looked at,
and of later days nothing is booked (`Agrees`); a friend's row covers what the
player stands for, and a gift received cannot be received again (`FriendsGood`);
the step to resume at is the furthest reported (`ProfileGood`). `Agrees` is what
makes `LimitsKept` inductive: a limit is checked against a record, kept
against the book, and midnight may come between the two. A handler keeps the
copy it works on `Good`; writes and loads only move copies; the passing of a day
weakens nothing (`LaterGood`). `Repaired` is proved to leave the fields
concerned alone, except for a guide step it sets to a number.

`BooksTheorem`, `PaidTheorem`, `RepairTheorem`, `TypeTheorem` and
`UnsavedTheorem` rest on a second invariant, `HeldTheorem`. `Held(s)` is again
about one copy, a conjunct for each part of the save: the bag holds of every cid what
the book says (`ItemsGood`); a mail or task that the book says was paid is marked as
collected, so it cannot pay again (`MailsGood`, `TasksGood`); the days of a
sign-in that were paid and those that are still open add up to the days that were open
when the player came (`SignsGood`); gifts received are those counted from
friends and those the save came with (`GiftsGood`); the pool covers the points
and the points allocated (`SpiritGood`); schema, heroes, teams and passed stages
are as a repair leaves them (`FixedGood`), which with `ItemsGood` is what
`RepairIdle` needs. `HeldFrom` says that a handler keeps the whole when it keeps
the parts it touches, so that each action's lemma is about one or two parts. A
request names ids in a list and may repeat them; folds over such a list are walked
with a lemma each (`ValueWalk` to `KeepWalk`). `RepairedGood` shows for a save of
any schema that `normalize_save` makes it one the invariant holds of.
`UnsavedTheorem` needs no invariant of a single copy but one of each step:
a handler that reports no change has changed nothing the player sees
(`ShopsSaved` to `StorySaved`).

**SaveFileProofs** — `TypeTheorem`, `MainWholeTheorem`, `ReadsWholeTheorem`, `AtomicTheorem`:
for any savers, documents and inodes, POSIX and Windows, while savers take
turns. `IInv` adds to the type invariant that only one process is inside `save`
(`Turns`), that the two names never point to one inode and where each points
(`Names`), how much of the temporary inode its writer has filled (`Writer`), and
that an inode a reader holds is whole and written by nobody (`Reader`). The last
part is what fails when turns are dropped. `AtomicTheorem` shows
that `Replace` is the one step of `SaveRegister` and every other step a stutter.

**ServerProofs** — `TypeTheorem`, `AcknowledgedTheorem`, `EditTheorem`, `ReplyTheorem`: for any
connections and requests, with crashes, drops and failing writes, under two
hypotheses the refuting runs show to be needed: sessions do not overlap, and
edits are made offline. The idea of `IInv` is that while a thread is alive its
copy contains the file (`CopyAhead`), because it is the only one who
writes; so writing the copy never loses anything. `OneThread` and `Busy` make
"the only one" precise, `Acknowledged ⊆ disk` and `ReplyBacked` follow an answer
from the write to the client.

**WireProofs** — `TypeTheorem`, `InOrderTheorem`, `NothingLeftTheorem`, `PadTheorem`: for every
stream of frames, every size limit, every way of cutting. `Incoming` says that the
head of the buffer is at the start of a frame whenever the loop has not
abandoned the prefix (`Aligned`), that the frames before it are handled
(`PrefixHandled`), and that no whole frame is in the buffer when the loop goes
back to `recv` (`NoneWhole`). `PadTheorem` is arithmetic: a padded total is
a multiple of 65,536, so the wrong length the client computes is just the
checksum, which is less than 65,536.

**GrowthProofs** — `BooksTheorem`, `FairTheorem`, `DrawnTheorem`, `LevelsTheorem`,
`PointsTheorem`, `PassiveTheorem`, `TeamsTheorem`, `TypeTheorem`,
`UnsavedTheorem`: all properties of the run, for any heroes, items, level and
price tables, skill trees, banners, teams and requests. `HeldTheorem` is the
invariant; again it is about one copy (`Held`), a conjunct for each part of the save:

* `ItemsGood`: the bag holds of every cid what the book says, rows have names of
  their own.
* `RosterGood`: every row is a whole hero row (`HeroRowOK`), no hero is above the player,
  and no hero has two rows. `HeroRowOK` holds what `PointsAccounted` needs and does
  not say: no stage the hero has still to break through sets fewer points than he
  has, or a breakthrough could take away points that are spent.
* `FedGood`: the EXP of each hero is what he was fed, and a hero the player does not
  own was fed nothing; so the row that a pull makes starts even.
* `GearOK` and `ShownGood`: a kind that piles up has one row, which never exceeds what
  a row holds; of each hero and kind the player has what was shown.
* `TeamsGood`: stances are of different owned heroes, no more than fit.
* `BannersGood`: the counter of the save is the number of plain cards in the book, no
  guaranteed card was missed, and a starter price that was paid has left its
  mark. `PullsFair` alone is not inductive: without the counter nothing says when a
  rare card is due.

`HeldFrom` says that a step keeps `Held` when it keeps the parts it touches, so each
action has a lemma about one or two parts. A pull touches most of them: it draws a list
of cards, counts the plain ones twice, in the save and in the book, and pays out
line by line: folds over lists that are walked one step at a time (`CardsWalk`,
`DryWalk`, `StreakWalk`, `StoredWalk`). `UnsavedTheorem`, like the one of the account, is about each step: what a
handler does not report, a reconnect does not show.

The assumptions name what the proofs use of the tables. That a node of the
skill tree is named by its hero, place and level is how `_angel_skill_index` is
keyed (`game_static_config.py:370`); that amounts are not negative is what
`_map_costs` lets through (`game_static_config.py:149`); that the starter price of a
banner is another item than the normal one is what `summon_handlers.py:173` says of
`firstCost`. Three are statements about the game's tables that the code does not
check: a later breakthrough sets at least the points of an earlier one, a card has no
more pieces of a kind than a row of it holds, and ids of heroes, equipment and
items are told apart. The start saves have one row for each hero and for each kind
that piles up, which is all the server ever makes.

## 7. What is only model-checked, what is not modelled

Only model-checked:

* `EveryRequestAnswered`: liveness under fairness is beyond the proof system
  used here.
* The six runs that refute a statement: a counterexample is what they show.

Not modelled, and why:

* Dungeon and role reads, hero attributes for display: pure reads.
* The order of the packets of one answer: a handler's pushes and its reply are
  one step. `ViewCurrent` says that no push is left out, not that it comes first.
* Parsing of Lua tables, protocol descriptors and message encoding: sequential,
  covered by unit tests that compare with the client's decoder; the models take
  their results as constants.
* Of `normalize_save`: rows that are not dictionaries and fields that are only
  shown. Of sign-ins: the defaults written on the first read, and the language.
* The debugging switches of the server (echo, XOR, trial replies), logging, HTTP
  answers, launcher, client patches, recon tools, the game's own Lua.

Abstractions a reader should know of: names of pages and presets are left out,
except that a rename may be accepted or refused, and the player's name is a
value that is blank or not; summon weights are zero or not zero; the two records
of a breakthrough are one number; ids are abstract pairs, so that an id that
collides with another can be made; `datingIds` of a stage are taken without
duplicates; town tables are as `TownsAssumption` says (section 6); in
`Server` a change is a request that always changes the save, quiet ones count as
reads.

## 8. Plan

Done, in this order: fights; save file; sessions; framing; items; roster; shop,
rewards, friends, spirits, profile and stories in one account, with the repair
of old saves; towns; the ledger refinement as a theorem; limits, shields, gifts
and the guide as theorems; induction over sets and lists; items, points, payments,
repair and saving in the account as theorems; all properties of `Growth`, and where
towns stand, as theorems. Every safety property that a passing run checks is
now a theorem.

Left, most important first:

1. An abstract specification of a write-through cache that `Server` (without
   overlap) and `Copies` both implement.
2. The defaults that the sign-in handler writes on the first read.
