---------------------------- MODULE MCHostStores ----------------------------
(***************************************************************************)
(* What an agent's run takes from its host's stores, on a small instance:   *)
(* FileReads for the files a tool call reads, SessionPersistence for the    *)
(* session the run is part of.  The two share no state, so a behaviour      *)
(* explores one and leaves the other at rest.                               *)
(***************************************************************************)
EXTENDS FileReads, TLC

CONSTANTS
  Requests, Sessions, Replicas, MaxCached, NoSession, NoState, Unreadable, Nobody

ASSUME SessionsAssumption ==
  /\ MaxCached \in Nat
  /\ Nobody \notin Requests
  /\ NoSession # NoState /\ NoState # Unreadable /\ Unreadable # NoSession
  /\ \A decided \in SUBSET Requests : decided \notin {NoSession, NoState, Unreadable}

VARIABLES
  stored, leased, at, req, base, data, stack, answer, cache, active,
  tokens, overtaken, \* those of SessionPersistence
  half               \* the half that is explored

Persistence == INSTANCE SessionPersistence

sessionVars == <<stored, leased, at, req, base, data, stack, answer, cache, active, tokens, overtaken>>

StoresInit ==
  /\ Init /\ Persistence!Init
  /\ \/ half = "files" /\ tokens /\ \A s \in Sessions : stored[s] = NoSession
     \/ half = "sessions" /\ builtIn

StoresNext ==
  /\ \/ half = "files" /\ Next /\ UNCHANGED sessionVars
     \/ half = "sessions" /\ Persistence!Next /\ UNCHANGED vars
  /\ UNCHANGED half

StoresSpec == StoresInit /\ [][StoresNext]_<<vars, sessionVars, half>>

\* SessionPersistence: a request's compaction decisions are of the session it loaded or its own,
\* whatever its replica has cached.
NoForeignDecisions == Persistence!NoForeignDecisions

\* SessionPersistence: a save is of a request that finished cleanly, and undoes no other save.
SavesFollowOn == Persistence!SavesFollowOn

\* The two halves are symmetric apart, so one permutation may act on a set of each.
Identity(p) == \A e \in DOMAIN p : p[e] = e
Joint(S, T) ==
  {pair[1] @@ pair[2] : pair \in {both \in Permutations(S) \X Permutations(T) :
                                   Identity(both[1]) <=> Identity(both[2])}}

\* Paths are interchangeable, and so are the reads of a call, requests and sessions.
Symmetry == Joint(Paths, Requests) \cup Joint(Reads, Sessions)

=============================================================================
