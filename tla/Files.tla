------------------------------- MODULE Files -------------------------------
(***************************************************************************)
(* ix_FileHandle (ix_file.cpp) on a POSIX system: objects that own a file  *)
(* descriptor and hand it on to each other, and the descriptors under      *)
(* them.  A descriptor that is closed is given to the next file opened, so *)
(* that closing one twice, or keeping one after it was closed, reaches     *)
(* somebody else's file.                                                   *)
(*                                                                         *)
(* What is written are numbered bytes, each written once; a call of        *)
(* ::write may fail after any part of a piece.  No file is opened twice at *)
(* once: that is the subject of Unpack.  `owed' is a ghost.                 *)
(***************************************************************************)
EXTENDS Integers, Sequences, FiniteSets

CONSTANTS
  Paths,
  Handles,     \* the objects
  MaxFds,      \* bound: descriptors of the process
  MaxFaults,   \* bound: calls of ::write that fail
  Closed,      \* a descriptor that is not open
  Gone         \* an object before its construction and after its destruction

ASSUME FilesAssumption == MaxFds \in Nat \ {0} /\ MaxFaults \in Nat

Fds == 0 .. MaxFds - 1
Invalid == -1

ASSUME GoneAssumption == Gone \notin Fds \cup {Invalid} /\ Closed \notin Paths

VARIABLES
  disk,     \* the content of every file
  fds,      \* the file each descriptor is open on
  handle,   \* v.fd of each object
  faults,   \* how many calls of ::write have failed
  owed      \* what was handed to write for each file since it was opened, but
            \* for what the calls that failed have dropped

fileVars == <<disk, fds, handle, faults, owed>>

Alive(h) == handle[h] # Gone
Valid(h) == handle[h] \in Fds
PathOf(h) == fds[handle[h]]

OpenFds == {fd \in Fds : fds[fd] # Closed}
LowestFreeFd == CHOOSE fd \in Fds \ OpenFds : \A g \in Fds \ OpenFds : fd <= g

FilesInit ==
  /\ disk = [p \in Paths |-> <<>>]
  /\ fds = [fd \in Fds |-> Closed]
  /\ handle = [h \in Handles |-> Gone]
  /\ faults = 0
  /\ owed = [p \in Paths |-> <<>>]

content == <<disk, faults, owed>>

-----------------------------------------------------------------------------
(* Descriptors: opened, handed on, duplicated, closed.                     *)

\* ix_open_file(p, ix_WRITE_ONLY), and the handle made of its result.  When
\* open fails there is no handle and nothing has changed.
Open(h, p) ==
  /\ ~Alive(h)
  /\ OpenFds # Fds /\ \A fd \in Fds : fds[fd] # p
  /\ fds' = [fds EXCEPT ![LowestFreeFd] = p]
  /\ handle' = [handle EXCEPT ![h] = LowestFreeFd]
  /\ disk' = [disk EXCEPT ![p] = <<>>]
  /\ owed' = [owed EXCEPT ![p] = <<>>]
  /\ UNCHANGED faults

\* ix_FileHandle(): a handle that is not valid.
DefaultHandle(h) ==
  /\ ~Alive(h)
  /\ handle' = [handle EXCEPT ![h] = Invalid]
  /\ UNCHANGED <<fds, content>>

\* Mutant: the handle moved from keeps the descriptor.
MoveKept(h, g) ==
  /\ ~Alive(h) /\ Alive(g)
  /\ handle' = [handle EXCEPT ![h] = handle[g]]
  /\ UNCHANGED <<fds, content>>

\* ix_FileHandle(ix_FileHandle &&other)
MoveHandle(h, g) ==
  /\ ~Alive(h) /\ Alive(g)
  /\ handle' = [handle EXCEPT ![h] = handle[g], ![g] = Invalid]
  /\ UNCHANGED <<fds, content>>

\* The descriptors after an object that holds v has closed it if it is valid.
ClosedIn(v) == [fd \in Fds |-> IF fd = v THEN Closed ELSE fds[fd]]

\* operator=, also of a handle to itself: close invalidates it first.
AssignHandle(h, g) ==
  /\ Alive(h) /\ Alive(g)
  /\ fds' = ClosedIn(handle[h])
  /\ handle' = [handle EXCEPT ![h] = handle[g], ![g] = Invalid]
  /\ UNCHANGED content

\* substitute
SubstituteHandle(h, g) ==
  /\ Alive(h) /\ Alive(g)
  /\ fds' = ClosedIn(handle[h])
  /\ handle' = [handle EXCEPT ![h] = handle[g], ![g] = Invalid]
  /\ UNCHANGED content

\* copy: dup, which must succeed.
CopyHandle(h, g) ==
  /\ ~Alive(h) /\ Alive(g) /\ Valid(g) /\ OpenFds # Fds
  /\ fds' = [fds EXCEPT ![LowestFreeFd] = PathOf(g)]
  /\ handle' = [handle EXCEPT ![h] = LowestFreeFd]
  /\ UNCHANGED content

\* close, which must succeed.
CloseHandle(h) ==
  /\ Alive(h) /\ Valid(h)
  /\ fds' = ClosedIn(handle[h])
  /\ handle' = [handle EXCEPT ![h] = Invalid]
  /\ UNCHANGED content

\* Mutant: only an explicit close gives the descriptor back.
DestroyWithoutClose(h) ==
  /\ Alive(h)
  /\ handle' = [handle EXCEPT ![h] = Gone]
  /\ UNCHANGED <<fds, content>>

\* ~ix_FileHandle
DestroyHandle(h) ==
  /\ Alive(h)
  /\ fds' = ClosedIn(handle[h])
  /\ handle' = [handle EXCEPT ![h] = Gone]
  /\ UNCHANGED content

-----------------------------------------------------------------------------
(* ix_FileHandle::write goes on until all of a piece is written, or until  *)
(* a call fails: then it returns, and tells nobody.                        *)

LongestOf(pieces) == CHOOSE n \in {Len(pieces[i]) : i \in DOMAIN pieces} :
                       \A i \in DOMAIN pieces : Len(pieces[i]) <= n

\* How much of each piece may get through.
Outcomes(pieces) ==
  IF pieces = <<>> THEN {<<>>}
  ELSE {k \in [DOMAIN pieces -> 0 .. LongestOf(pieces)] :
          /\ \A i \in DOMAIN pieces : k[i] <= Len(pieces[i])
          /\ faults + Cardinality({i \in DOMAIN pieces : k[i] < Len(pieces[i])}) <= MaxFaults}

Joined(pieces) ==
  LET upTo[n \in 0 .. Len(pieces)] == IF n = 0 THEN <<>> ELSE upTo[n - 1] \o pieces[n]
  IN upTo[Len(pieces)]

Bytes(s) == {s[i] : i \in DOMAIN s}

\* What is left of s without the bytes that are lost.
Remaining(s, lost) == Joined([i \in DOMAIN s |-> IF s[i] \in lost THEN <<>> ELSE <<s[i]>>])

\* The pieces are handed to write one after the other; k is their outcome.
\* `new' of their bytes are owed from now on.
WritePieces(p, new, pieces, k) ==
  LET through == Joined([i \in DOMAIN pieces |-> SubSeq(pieces[i], 1, k[i])])
      dropped == Bytes(Joined(pieces)) \ Bytes(through)
  IN /\ disk' = [disk EXCEPT ![p] = disk[p] \o through]
     /\ owed' = [owed EXCEPT ![p] = Remaining(owed[p] \o new, dropped)]
     /\ faults' = faults + Cardinality({i \in DOMAIN pieces : k[i] < Len(pieces[i])})

\* write, write_string, write_char and write_stringf on a handle.
WriteHandle(h, s) ==
  /\ Alive(h) /\ Valid(h)
  /\ \E k \in Outcomes(<<s>>) : WritePieces(PathOf(h), s, <<s>>, k)
  /\ UNCHANGED <<fds, handle>>

-----------------------------------------------------------------------------
\* Every descriptor that is open belongs to exactly one handle, and every
\* valid handle has an open one: none is left open for ever, and none is
\* closed twice (ix_FileHandle's constructors, assignments and destructor).
HandlesOwnDescriptors ==
  /\ \A fd \in OpenFds : \E h \in Handles : handle[h] = fd
  /\ \A h \in Handles : Valid(h) => fds[handle[h]] # Closed
  /\ \A g, h \in Handles : Valid(g) /\ handle[g] = handle[h] => g = h
=============================================================================
