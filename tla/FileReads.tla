------------------------------ MODULE FileReads ------------------------------
(***************************************************************************)
(* Reading the agent's file store in a tool call (read_file and                 *)
(* _check_file_window in maf.py, FileStoreProvenance and ReadWindow in           *)
(* _file_provenance.py).  Files change under the call: a write tool's bytes land   *)
(* and its path is recorded only when its call returns; a host removes a file and   *)
(* forgets its path.  The call keeps a window over the paths it reads and a         *)
(* snapshot of each, and before a read is handed over it checks every one of them   *)
(* again: two rounds of samples, with the bytes read again in between where the     *)
(* record is a host's own and its count has moved.                              *)
(*                                                                         *)
(* The record is this package's, which tells the window of each mutation, or a      *)
(* host's subclass, which counts every change of its store and tells it nothing.    *)
(* Floor and observer are those that matter: trusted, and built.  A record may      *)
(* change between any two steps, and so may the other read of the call.         *)
(***************************************************************************)
EXTENDS Naturals, SequencesExt

CONSTANTS
  Paths,
  Reads,      \* read_file calls of the body
  MaxChanges, \* bound: bytes landed and files removed
  Tainted,    \* contents a host's own record calls untrusted
  None        \* no state, no snapshot

Absent == MaxChanges + 1    \* what a path holds once its file is removed
Contents == 0..Absent       \* 0 is what the host placed; the numbers between are the model's

\* What a record answers about a path, and what a reader keeps of one it has read.
Integrities == {"trusted", "untrusted"}
States == [integrity : Integrities, count : Nat]
Snapshots == [content : Contents, integrity : Integrities, count : Nat]

ASSUME ChangesAssumption == MaxChanges \in Nat /\ Tainted \subseteq 1..MaxChanges
ASSUME NoneAssumption == None \notin Paths \cup Contents \cup States \cup Snapshots

VARIABLES
  builtIn,   \* the record is exactly a FileStoreProvenance
  store,     \* what each path holds
  changes,   \* changes of the store so far
  inFlight,  \* paths and contents of write calls that have not returned
  entries,   \* record._entries
  epoch,     \* a host record's count; this package's settles nothing and is left out
  open,      \* the call has listed: its window is open
  past,      \* history: what the store has held since
  tracked,   \* window._paths
  snaps,     \* window._reads: content, integrity and count
  noted,     \* window._changed
  revision,  \* _FileReads.revision
  refused,   \* file_refusal is set
  path,      \* each read's path
  text,      \* each read's text
  before,    \* the record's answer before it
  chk        \* where each read is

files == <<store, changes, inFlight, entries, epoch, past>>
window == <<tracked, snaps, noted, revision, refused>>
reads == <<path, text, before, chk>>
vars == <<builtIn, files, open, window, reads>>

\* A check of the window: its round, the paths still to be sampled, the samples, the snapshots in
\* doubt, and the sample and the bytes of the one that is read again.
Checks ==
  [at : {"idle", "collect", "bytes", "reread", "resample", "read", "keep", "given", "over"},
   then : {"read", "given", "over"}, attempt : 0..2, rev : Nat, todo : Seq(Paths),
   got : [Paths -> States \cup {None}], pending : Seq([path : Paths, was : Snapshots]),
   first : States \cup {None}, again : Contents \cup {None}]

Idle == [at |-> "idle", then |-> "read", attempt |-> 0, rev |-> 0, todo |-> <<>>,
         got |-> [p \in Paths |-> None], pending |-> <<>>, first |-> None, again |-> None]

TypeOK ==
  /\ {builtIn, open, refused} \subseteq BOOLEAN
  /\ store \in [Paths -> Contents] /\ changes \in 0..MaxChanges
  /\ inFlight \subseteq Paths \X (1..MaxChanges) /\ entries \subseteq Paths /\ epoch \in Nat
  /\ past \subseteq [Paths -> Contents]
  /\ tracked \in Seq(Paths) /\ noted \subseteq Paths /\ revision \in Nat
  /\ snaps \in [Paths -> Snapshots \cup {None}]
  /\ path \in [Reads -> Paths \cup {None}] /\ text \in [Reads -> Contents \cup {None}]
  /\ before \in [Reads -> States \cup {None}]
  /\ chk \in [Reads -> Checks]

Init ==
  /\ builtIn \in BOOLEAN
  /\ store = [p \in Paths |-> 0] /\ changes = 0 /\ inFlight = {} /\ entries = {} /\ epoch = 0
  /\ open = FALSE /\ past = {} /\ tracked = <<>> /\ snaps = [p \in Paths |-> None]
  /\ noted = {} /\ revision = 0 /\ refused = FALSE
  /\ path = [r \in Reads |-> None] /\ text = [r \in Reads |-> None]
  /\ before = [r \in Reads |-> None] /\ chk = [r \in Reads |-> Idle]

-----------------------------------------------------------------------------
(* The store and its record.                                                 *)

\* state_of: the entry or the floor; a host's own record answers about the bytes it has.
Integrity(p) ==
  IF (builtIn /\ p \in entries) \/ (~builtIn /\ store[p] \in Tainted) THEN "untrusted" ELSE "trusted"

State(p) == [integrity |-> Integrity(p), count |-> epoch]

\* Two slips: a path that is forgotten is not noted, or is no longer.
NotedAtRecords(p) == IF open /\ p \notin entries THEN noted \cup {p} ELSE noted
NotedUntilForgotten(p) == IF open /\ p \notin entries THEN noted \cup {p} ELSE noted \ {p}

\* _changed: an open window notes the path.
Noted(p) == IF open THEN noted \cup {p} ELSE noted

Holds(p, content) ==
  /\ changes < MaxChanges /\ changes' = changes + 1
  /\ store' = [store EXCEPT ![p] = content]
  /\ past' = IF open /\ ~builtIn THEN past \cup {store'} ELSE past
  /\ epoch' = IF builtIn THEN epoch ELSE epoch + 1

\* A write tool's bytes land.
Land(p) ==
  /\ Holds(p, changes + 1)
  /\ inFlight' = IF builtIn THEN inFlight \cup {<<p, changes'>>} ELSE inFlight
  /\ UNCHANGED <<builtIn, entries, open, window, reads>>

\* record, in the middleware's finally once the call has returned, whether its bytes landed or
\* it was refused.
Record(p, landed) ==
  /\ builtIn
  /\ inFlight' = inFlight \ landed
  /\ entries' = entries \cup {p}
  /\ noted' = Noted(p)
  /\ UNCHANGED <<builtIn, store, changes, epoch, past, open, tracked, snaps, revision, refused, reads>>

\* The host removes a file.
Unlink(p) ==
  /\ store[p] # Absent
  /\ Holds(p, Absent)
  /\ UNCHANGED <<builtIn, inFlight, entries, open, window, reads>>

\* forget, by a host that has established that the file is gone and that nobody is writing it.
Forget(p) ==
  /\ builtIn /\ p \in entries
  /\ store[p] = Absent /\ \A w \in inFlight : w[1] # p
  /\ entries' = entries \ {p}
  /\ noted' = Noted(p)
  /\ UNCHANGED <<builtIn, store, changes, inFlight, epoch, past, open, tracked, snaps, revision,
                 refused, reads>>

Environment ==
  \E p \in Paths :
    \/ Land(p) \/ Unlink(p) \/ Forget(p) \/ Record(p, {})
    \/ \E w \in inFlight : w[1] = p /\ Record(p, {w})

-----------------------------------------------------------------------------
(* _check_file_window.  It ends in one of two ways: what follows it, or a refusal of the call. *)

Moves(r, c) == chk' = [chk EXCEPT ![r] = c]

\* FileStoreChanged, with the paths it is about.
Refuses(r, about) ==
  /\ noted' = noted \cup about /\ refused' = TRUE
  /\ Moves(r, [Idle EXCEPT !.at = "over"])
  /\ UNCHANGED <<tracked, snaps, revision>>

\* A round begins: every path of the window is to be sampled, in the order they were tracked.
Round(n, then, paths, rev) ==
  [Idle EXCEPT !.at = "collect", !.then = then, !.attempt = n, !.rev = rev, !.todo = paths]

\* A read's own path has its first sample already.
Sample(r, p) ==
  IF chk[r].attempt = 0 /\ chk[r].then = "read" /\ p = path[r] THEN before[r] ELSE State(p)

\* A slip: an answer that has not changed is taken for bytes that have not.
SettledByIntegrity(p, state) == snaps[p].integrity = state.integrity

\* The snapshot stands: its count is the record's, or this package's record would have told.
Settled(p, state) == snaps[p].count = state.count \/ builtIn

Doubted(c) == {c.pending[i].path : i \in DOMAIN c.pending}
Sampled(c) == {p \in Paths : c.got[p] # None}

\* The next path is sampled: a change the window knows of, or an answer that is not the snapshot's,
\* ends the call; a count that has moved leaves the path to be read again.
Collect(r) ==
  LET c == chk[r]
      p == Head(c.todo)
      state == Sample(r, p)
      next == [c EXCEPT !.todo = Tail(@)]
  IN /\ c.at = "collect" /\ c.todo # <<>>
     /\ \/ p \in noted /\ Refuses(r, {})
        \/ /\ p \notin noted /\ snaps[p] = None
           /\ Moves(r, next) /\ UNCHANGED window
        \/ /\ p \notin noted /\ snaps[p] # None /\ snaps[p].integrity # state.integrity
           /\ Refuses(r, {p})
        \/ /\ p \notin noted /\ snaps[p] # None /\ snaps[p].integrity = state.integrity
           /\ Moves(r, [next EXCEPT !.got[p] = state,
                           !.pending = IF Settled(p, state) THEN @
                                       ELSE Append(@, [path |-> p, was |-> snaps[p]])])
           /\ UNCHANGED window

\* What may have changed is read again, unless the rounds are used up.
Doubt(r) ==
  LET c == chk[r]
  IN /\ c.at = "collect" /\ c.todo = <<>> /\ c.pending # <<>>
     /\ \/ c.attempt = 2 /\ Refuses(r, Doubted(c))
        \/ c.attempt < 2 /\ Moves(r, [c EXCEPT !.at = "bytes"]) /\ UNCHANGED window

\* A second sample of every path is the first one (its count only where it is a host's), and no
\* other read of the call has added an input.
Stable(c) ==
  /\ \A p \in Sampled(c) : State(p) = c.got[p]
  /\ revision = c.rev

\* Nothing to read again: the samples are compared with a second round of them.  What changes
\* after a path's second sample might as well have changed after all of them, so they are one step.
Compare(r) ==
  LET c == chk[r]
  IN /\ c.at = "collect" /\ c.todo = <<>> /\ c.pending = <<>>
     /\ \/ \E p \in ToSet(tracked) : p \in noted /\ Refuses(r, {})
        \/ /\ ToSet(tracked) \cap noted = {}
           /\ \/ Stable(c) /\ Moves(r, [Idle EXCEPT !.at = c.then]) /\ UNCHANGED window
              \/ ~Stable(c) /\ c.attempt = 2 /\ Refuses(r, {})
              \/ /\ ~Stable(c) /\ c.attempt < 2
                 /\ Moves(r, Round(c.attempt + 1, c.then, tracked, revision))
                 /\ UNCHANGED window

\* The bytes of one pending path are read again, between two samples; a read that fails is a change.
SampleFirst(r) ==
  LET c == chk[r]
      p == Head(c.pending).path
  IN /\ c.at = "bytes"
     /\ \/ p \in noted /\ Refuses(r, {})
        \/ /\ p \notin noted
           /\ Moves(r, [c EXCEPT !.at = "reread", !.first = State(p)])
           /\ UNCHANGED window

Reread(r) ==
  LET c == chk[r]
  IN /\ c.at = "reread"
     /\ \/ Refuses(r, {Head(c.pending).path})
        \/ Moves(r, [c EXCEPT !.at = "resample", !.again = store[Head(c.pending).path]])
           /\ UNCHANGED window

SampleAgain(r) ==
  LET c == chk[r]
      p == Head(c.pending).path
      was == Head(c.pending).was
      unchanged == c.again = was.content /\ c.first.integrity = was.integrity
                     /\ Integrity(p) = was.integrity
      rest == [c EXCEPT !.at = "bytes", !.pending = Tail(@), !.first = None, !.again = None]
  IN /\ c.at = "resample"
     /\ \/ p \in noted /\ Refuses(r, {})
        \/ p \notin noted /\ ~unchanged /\ Refuses(r, {p})
        \/ /\ p \notin noted /\ unchanged
           /\ snaps' = IF c.first.count = epoch /\ snaps[p] = was
                       THEN [snaps EXCEPT ![p].count = epoch] ELSE snaps
           /\ Moves(r, IF rest.pending # <<>> THEN rest
                       ELSE Round(c.attempt + 1, c.then, tracked, revision))
           /\ UNCHANGED <<tracked, noted, revision, refused>>

Check(r) ==
  Collect(r) \/ Doubt(r) \/ Compare(r) \/ SampleFirst(r) \/ Reread(r) \/ SampleAgain(r)

-----------------------------------------------------------------------------
(* The call.                                                                 *)

\* list_files: the call's window opens.  The listing's own labels can only lower an answer.
List ==
  /\ ~open /\ open' = TRUE
  /\ past' = IF builtIn THEN past ELSE {store}
  /\ revision' = 1
  /\ UNCHANGED <<builtIn, store, changes, inFlight, entries, epoch, tracked, snaps, noted, refused,
                 reads>>

\* read_file up to its first check: the path is tracked, and the record is asked.
Begin(r, p) ==
  /\ open /\ chk[r] = Idle /\ path[r] = None
  /\ path' = [path EXCEPT ![r] = p]
  /\ tracked' = IF p \in ToSet(tracked) THEN tracked ELSE Append(tracked, p)
  /\ revision' = IF p \in ToSet(tracked) THEN revision ELSE revision + 1
  /\ before' = [before EXCEPT ![r] = State(p)]
  /\ \/ p \in noted /\ refused' = TRUE /\ Moves(r, [Idle EXCEPT !.at = "over"])
     \/ /\ p \notin noted /\ UNCHANGED refused
        /\ chk' = [chk EXCEPT ![r] = Round(0, "read", tracked', revision')]
  /\ UNCHANGED <<builtIn, files, open, snaps, noted, text>>

\* store.read answers, or fails: then the inputs are checked and the caller is told so.
StoreRead(r) ==
  /\ chk[r].at = "read"
  /\ \/ text' = [text EXCEPT ![r] = store[path[r]]] /\ Moves(r, [Idle EXCEPT !.at = "keep"])
     \/ UNCHANGED text /\ Moves(r, Round(0, "over", tracked, revision))
  /\ UNCHANGED <<builtIn, files, open, window, path, before>>

\* _folded_integrity: the first read of a path is its snapshot, and a later one has to agree.
Remember(r) ==
  LET p == path[r]
      candidate == [content |-> text[r], integrity |-> before[r].integrity,
                    count |-> before[r].count]
      check(rev) == Round(0, "given", tracked, rev)
  IN /\ chk[r].at = "keep"
     /\ \/ /\ snaps[p] = None
           /\ snaps' = [snaps EXCEPT ![p] = candidate] /\ revision' = revision + 1
           /\ Moves(r, check(revision'))
           /\ UNCHANGED <<tracked, noted, refused>>
        \/ /\ snaps[p] # None /\ snaps[p].content = text[r]
           /\ Moves(r, check(revision)) /\ UNCHANGED window
        \/ snaps[p] # None /\ snaps[p].content # text[r] /\ Refuses(r, {p})
     /\ UNCHANGED <<builtIn, files, open, path, text, before>>

Call ==
  \/ List
  \/ \E r \in Reads :
       \/ \E p \in Paths : Begin(r, p)
       \/ StoreRead(r) \/ Remember(r)
       \/ Check(r) /\ UNCHANGED <<builtIn, files, open, path, text, before>>

\* A call that is refused has no result, whatever its body still reads.
Next == ~refused /\ (Environment \/ Call)

Spec == Init /\ [][Next]_vars

-----------------------------------------------------------------------------
(* Properties.                                                               *)

Given == {r \in Reads : chk[r].at = "given"}
Begun == {r \in Reads : path[r] # None}

\* With this package's record a trusted label is never on bytes that a write tool is known to have
\* put there: whenever a read is handed over, the bytes of every input the call has as trusted come
\* from the host, or from a write that has not returned (the residue the record documents).
TrustedIsNotRecorded ==
  [][\A r \in Given' \ Given : \A s \in Given' :
       builtIn /\ before'[s].integrity = "trusted" /\ text'[s] \in 1..MaxChanges =>
         <<path'[s], text'[s]>> \in inFlight']_vars

\* With a record that counts every change, what a call is given was in the store together, at one
\* moment since it listed: no result is made of two states of the store.
InputsCoexisted ==
  ~builtIn /\ Given # {} => \E h \in past : \A r \in Given : h[path[r]] = text[r]

\* With this package's record a call whose inputs are read by one or two readers is refused only for
\* a path it reads, recorded or forgotten since it listed, or read twice with different bytes: what
\* is written elsewhere in the store costs it nothing, and neither do inputs that the other reader
\* adds under a check.
OnlyInputsRefuse ==
  builtIn /\ refused /\ (\E r, s \in Reads : Begun \subseteq {r, s}) =>
    noted \cap ToSet(tracked) # {}

\* read_file says so of any number of readers: a mutation to an input refuses the call, unrelated
\* ones do not.
OnlyMutationsRefuse ==
  builtIn /\ refused => noted \cap ToSet(tracked) # {}

=============================================================================
