------------------------------ MODULE SaveFile ------------------------------
(***************************************************************************)
(* player_save.py at the level of the file system.  save() opens the one    *)
(* name player.json.tmp, truncating it, writes the document in several      *)
(* blocks and renames it over player.json.  Every connection thread, the    *)
(* HTTP server's process and edit_state.py run the same code on the same    *)
(* two names, and load_save() may start a save of its own.                  *)
(*                                                                         *)
(* A directory entry points at an inode; a writer keeps its inode open      *)
(* while the name under it changes.  A document is two blocks: a file is    *)
(* whole if both come from the same document.                               *)
(***************************************************************************)
EXTENDS Integers

CONSTANTS
  Savers,     \* threads and processes that call save() and load_save()
  Docs,       \* documents they may save
  Default,    \* the document of default_save()
  OneSaver,   \* saves take turns: one session, no editor; loads need not
  Inodes,     \* inodes of the directory; enough for both names and all handles
  NoFile,     \* a name without a file, a saver without a handle
  Hole, Missing, NoDoc

ASSUME SaveFileAssumption ==
  /\ Default \in Docs
  /\ {Hole, Missing, NoDoc} \cap Docs = {}
  /\ NoFile \notin Inodes
  /\ OneSaver \in BOOLEAN

VARIABLES
  main,   \* inode of player.json, or NoFile
  tmp,    \* inode of player.json.tmp, or NoFile
  block,  \* block[i]: the two blocks of inode i
  pc,     \* pc[a]: what a is doing
  fd,     \* fd[a]: the inode a has open, or NoFile
  doc     \* doc[a]: the document a is saving

vars == <<main, tmp, block, pc, fd, doc>>

Free == Inodes \ ({main, tmp} \cup {fd[a] : a \in Savers})
Empty == <<Hole, Hole>>

Saving == {"open", "first", "rest", "replace"}
HasTurn == OneSaver => \A b \in Savers : pc[b] \notin Saving

Whole(i) == block[i][1] # Hole /\ block[i][1] = block[i][2]

Init ==
  /\ main = NoFile /\ tmp = NoFile
  /\ block = [i \in Inodes |-> Empty]
  /\ pc = [a \in Savers |-> "idle"]
  /\ fd = [a \in Savers |-> NoFile]
  /\ doc = [a \in Savers |-> NoDoc]

-----------------------------------------------------------------------------
Goes(a, label) == pc' = [pc EXCEPT ![a] = label]

(* Slip: the document is forgotten on the way to the file.                  *)
SaveNothing(a, d) ==
  /\ pc[a] = "idle" /\ HasTurn
  /\ Goes(a, "open")
  /\ UNCHANGED <<main, tmp, block, fd, doc>>

(* A handler, the login or the editor calls save() on its copy.             *)
Save(a, d) ==
  /\ pc[a] = "idle" /\ HasTurn
  /\ Goes(a, "open")
  /\ doc' = [doc EXCEPT ![a] = d]
  /\ UNCHANGED <<main, tmp, block, fd>>

(* load_save() of a missing file: the default save is written at once.      *)
LoadMissing(a) ==
  /\ main = NoFile
  /\ Save(a, Default)

(* load_save() opens player.json and reads it; a document of an older       *)
(* schema is saved again after the migration.                               *)
OpenMain(a) ==
  /\ main # NoFile
  /\ pc[a] = "idle"
  /\ Goes(a, "read")
  /\ fd' = [fd EXCEPT ![a] = main]
  /\ UNCHANGED <<main, tmp, block, doc>>

FinishRead(a) ==
  /\ pc[a] = "read"
  /\ fd' = [fd EXCEPT ![a] = NoFile]
  /\ \/ Goes(a, "idle") /\ UNCHANGED doc
     \/ \E d \in Docs : /\ Whole(fd[a]) /\ HasTurn
                        /\ Goes(a, "open")
                        /\ doc' = [doc EXCEPT ![a] = d]
  /\ UNCHANGED <<main, tmp, block>>

(* Slip: player.json itself is opened for writing.                          *)
OpenInPlace(a) ==
  /\ pc[a] = "open"
  /\ \E i \in IF main # NoFile THEN {main} ELSE Free :
       /\ main' = i
       /\ fd' = [fd EXCEPT ![a] = i]
       /\ block' = [block EXCEPT ![i] = Empty]
  /\ Goes(a, "first")
  /\ UNCHANGED <<tmp, doc>>

(* open(tmp, "w"): an existing file of that name is truncated and shared.   *)
OpenTmp(a) ==
  /\ pc[a] = "open"
  /\ \E i \in IF tmp # NoFile THEN {tmp} ELSE Free :
       /\ tmp' = i
       /\ fd' = [fd EXCEPT ![a] = i]
       /\ block' = [block EXCEPT ![i] = Empty]
  /\ Goes(a, "first")
  /\ UNCHANGED <<main, doc>>

(* json.dump writes as it goes; the last block is flushed when the file is  *)
(* closed.  Each write lands at the writer's own offset.                    *)
WriteFirst(a) ==
  /\ pc[a] = "first"
  /\ block' = [block EXCEPT ![fd[a]][1] = doc[a]]
  /\ Goes(a, "rest")
  /\ UNCHANGED <<main, tmp, fd, doc>>

WriteRest(a) ==
  /\ pc[a] = "rest"
  /\ block' = [block EXCEPT ![fd[a]][2] = doc[a]]
  /\ fd' = [fd EXCEPT ![a] = NoFile]
  /\ Goes(a, "replace")
  /\ UNCHANGED <<main, tmp, doc>>

HeldOpen == \E a \in Savers : fd[a] # NoFile /\ fd[a] \in {main, tmp}

(* os.replace: the name moves if it is still there.  POSIX moves it whoever *)
(* has the files open, Windows refuses while anybody has.                   *)
CanReplace == tmp # NoFile
MayRaise == tmp = NoFile \/ HeldOpen

Replace(a) ==
  /\ pc[a] = "replace"
  /\ CanReplace
  /\ main' = tmp /\ tmp' = NoFile
  /\ Goes(a, "idle")
  /\ doc' = [doc EXCEPT ![a] = NoDoc]
  /\ UNCHANGED <<block, fd>>

ReplaceRaises(a) ==
  /\ pc[a] = "replace"
  /\ MayRaise
  /\ Goes(a, "idle")
  /\ doc' = [doc EXCEPT ![a] = NoDoc]
  /\ UNCHANGED <<main, tmp, block, fd>>

(* The process of a dies, or a write raises (disk full): what was written   *)
(* so far stays in the file.                                                *)
Stop(a) ==
  /\ pc[a] # "idle"
  /\ Goes(a, "idle")
  /\ fd' = [fd EXCEPT ![a] = NoFile]
  /\ doc' = [doc EXCEPT ![a] = NoDoc]
  /\ UNCHANGED <<main, tmp, block>>

Next ==
  \E a \in Savers :
    \/ \E d \in Docs : Save(a, d)
    \/ LoadMissing(a) \/ OpenMain(a) \/ FinishRead(a)
    \/ OpenTmp(a) \/ WriteFirst(a) \/ WriteRest(a)
    \/ Replace(a) \/ ReplaceRaises(a) \/ Stop(a)

Spec == Init /\ [][Next]_vars

-----------------------------------------------------------------------------
TypeOK ==
  /\ main \in Inodes \cup {NoFile} /\ tmp \in Inodes \cup {NoFile}
  /\ block \in [Inodes -> [1..2 -> Docs \cup {Hole}]]
  /\ pc \in [Savers -> {"idle", "read"} \cup Saving]
  /\ fd \in [Savers -> Inodes \cup {NoFile}]
  /\ doc \in [Savers -> Docs \cup {NoDoc}]

(* player.json is never half a document: whoever opens it can parse it.     *)
MainWhole == main # NoFile => Whole(main)

(* A load sees one whole document, even if the file is replaced while it    *)
(* reads: json.load never fails on what save() wrote.                       *)
ReadsWhole == \A a \in Savers : pc[a] = "read" => Whole(fd[a])

(* The file seen as a register: the document it holds, and what each saver  *)
(* is about to put there.                                                   *)
Register ==
  INSTANCE SaveRegister
    WITH file <- IF main = NoFile THEN Missing ELSE block[main][1],
         pending <- doc

(* save() is atomic: the file changes only from one whole document to       *)
(* another, in the step of a save that was begun.                           *)
SaveIsAtomic == Register!Spec
=============================================================================
