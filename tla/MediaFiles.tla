----------------------------- MODULE MediaFiles -----------------------------
(***************************************************************************)
(* The media files that suppliers, the watcher and the routing step share. *)
(* A content stands for what FileSnapshot compares, the pair (size, mtime).*)
(* A move and copy2 keep both, so a content keeps its identity when the    *)
(* service routes the file.  What suppliers do is external: they are the   *)
(* environment of server/watch.py and server/routing.py.                   *)
(***************************************************************************)
EXTENDS Naturals, Sequences

CONSTANTS
  Dirs,           \* the directories
  MaxCollisions,  \* bound: highest counter unique_destination reaches
  MaxNesting,     \* bound: counters one behind the other in a name, x_1_1
  MaxContents     \* bound: contents the suppliers ever write

ASSUME MediaAssumption ==
  MaxCollisions \in Nat /\ MaxNesting \in Nat /\ MaxContents \in Nat

(* A file name is a stem with the counters that routing appended to it. *)
Names == UNION {[1..n -> 1..MaxCollisions] : n \in 0..MaxNesting}
Paths == Dirs \X Names
Dir(p) == p[1]
Name(p) == p[2]

Absent == 0
Contents == 1..MaxContents
Torn == MaxContents + 1     \* what an unfinished copy of the service has written

VARIABLES
  disk,     \* the content at each path
  writer,   \* who is writing there, see Writers
  settled,  \* the contents whose mtime lies settle_seconds back
  whole,    \* the contents whose supplier has finished them
  written,  \* the number of contents written so far
  owed      \* history: whole contents that no supplier took back or replaced

fileVars == <<disk, writer, settled, whole, written, owed>>

(* "touch": a writer that leaves the mtime at now, or the service's copy;  *)
(* "keep": one that shows an old mtime from the start, so that only its    *)
(* growing size gives it away; "listed": such a writer, not yet grown      *)
(* since the last scan; "copy": the service's own shutil copy.             *)
Writers == {"none", "touch", "keep", "listed", "copy"}

MediaType ==
  /\ disk \in [Paths -> {Absent, Torn} \cup Contents]
  /\ writer \in [Paths -> Writers]
  /\ settled \subseteq Contents \cup {Torn}
  /\ whole \subseteq Contents
  /\ written \in 0..MaxContents
  /\ owed \subseteq Contents

MediaInit ==
  /\ disk = [p \in Paths |-> Absent]
  /\ writer = [p \in Paths |-> "none"]
  /\ settled = {} /\ whole = {} /\ written = 0 /\ owed = {}

Free(p) == disk[p] = Absent
Put(p, c) == disk' = [disk EXCEPT ![p] = c]
SetWriter(p, w) == writer' = [writer EXCEPT ![p] = w]

(* A new content at p, which starts or continues a copy into the folder. *)
Grow(p, w) ==
  /\ written < MaxContents
  /\ written' = written + 1
  /\ Put(p, written + 1)
  /\ SetWriter(p, w)
  /\ settled' = settled \cup (IF w = "keep" THEN {written + 1} ELSE {})
  /\ owed' = owed \ {disk[p]}
  /\ UNCHANGED whole

BeginWrite(p, w) == writer[p] = "none" /\ w \in {"touch", "keep"} /\ Grow(p, w)

WriteMore(p) ==
  \/ writer[p] = "touch" /\ Grow(p, "touch")
  \/ writer[p] \in {"keep", "listed"} /\ Grow(p, "keep")

EndWrite(p) ==
  /\ writer[p] \in {"touch", "keep", "listed"}
  /\ SetWriter(p, "none")
  /\ whole' = whole \cup {disk[p]}
  /\ owed' = owed \cup {disk[p]}
  /\ UNCHANGED <<disk, settled, written>>

(* A finished file is moved in: a new one, or one that was here before.    *)
(* It keeps its old mtime, so it counts as settled at once.                *)
MoveIn(p, c) ==
  /\ writer[p] = "none"
  /\ c \in whole \/ (c = written + 1 /\ c <= MaxContents)
  /\ c # disk[p]
  /\ Put(p, c)
  /\ written' = IF c \in whole THEN written ELSE c
  /\ whole' = whole \cup {c}
  /\ owed' = (owed \ {disk[p]}) \cup {c}
  /\ settled' = settled \cup {c}
  /\ UNCHANGED writer

(* A supplier takes a file back, or the next system collects it. *)
TakeAway(p) ==
  /\ ~Free(p)
  /\ writer[p] = "none"
  /\ Put(p, Absent)
  /\ owed' = owed \ {disk[p]}
  /\ UNCHANGED <<writer, settled, whole, written>>

(* Time passes.  A file in the making is touched at least once in every    *)
(* settle_seconds: that is what the setting is for.                        *)
Age(c) ==
  /\ c \in {disk[p] : p \in Paths} \ ({Absent} \cup settled)
  /\ \A p \in Paths : disk[p] = c => writer[p] \notin {"touch", "copy"}
  /\ settled' = settled \cup {c}
  /\ UNCHANGED <<disk, writer, whole, written, owed>>

Numbered(p, k) == <<Dir(p), Append(Name(p), k)>>

FaultyUniqueDestination(q, p) == q = p
(* q is unique_destination(Dir(p), Name(p)): p itself when nothing is      *)
(* there, else p with the lowest counter that is free.                     *)
UniqueDestination(q, p) ==
  \/ q = p /\ Free(p)
  \/ /\ ~Free(p)
     /\ \E k \in 1..MaxCollisions :
          /\ q = Numbered(p, k) /\ q \in Paths
          /\ Free(q)
          /\ \A i \in 1..(k - 1) : ~Free(Numbered(p, i))
=============================================================================
