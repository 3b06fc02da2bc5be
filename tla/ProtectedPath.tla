-------------------------- MODULE ProtectedPath --------------------------
(***************************************************************************)
(* winsecurefile: openPath walks a path from the volume root to the file,  *)
(* keeping a handle on every component, while directories and files of the *)
(* path are being replaced; Open and OpenManagedImage then validate the    *)
(* file, its parent and its grandparent on the handles they hold.          *)
(***************************************************************************)
EXTENDS Naturals, Sequences, Functions

CONSTANTS
    Object,         \* file system objects
    Root,           \* the volume root
    Kind,           \* Kind[o]: "dir", "file" or "reparse"
    Valid,          \* objects whose owner and DACL the policy accepts
    Depth,          \* components of the path below the root, at least one
    Opener, None

VARIABLES
    child,      \* child[o]: what the path's next component names inside directory o
    open        \* the openers: [pc, handles], handles from the root on

pathVars == <<child, open>>

Closed == [pc |-> "idle", handles |-> <<>>]

Entry == (Object \ {Root}) \cup {None}

\* An object is in one directory only.
Tree(c) == \A d, e \in DOMAIN c : c[d] = c[e] /\ c[d] # None => d = e

PathInit ==
    /\ child \in {c \in [{o \in Object : Kind[o] = "dir"} -> Entry] : Tree(c)}
    /\ open = [t \in Opener |-> Closed]

Held == UNION {Range(open[t].handles) : t \in Opener}

\* What the path names at this moment, down to component k; a reparse point on the way
\* is opened itself and so leads nowhere.
Resolve[k \in Nat] ==
    IF k = 0 THEN Root
    ELSE IF Resolve[k - 1] # None /\ Kind[Resolve[k - 1]] = "dir"
         THEN child[Resolve[k - 1]] ELSE None

-----------------------------------------------------------------------
(* openPath                                                              *)

Fail(t) == open' = [open EXCEPT ![t] = Closed]

\* pathParts accepts the path, and the root directory is opened.
OpenRoot(t) ==
    /\ open[t].pc = "idle"
    /\ open' = [open EXCEPT ![t] = [pc |-> "walk", handles |-> <<Root>>]]
    /\ UNCHANGED child

Wanted(t) == IF Len(open[t].handles) = Depth THEN "file" ELSE "dir"

\* openDirectory and openFinalFile: open by full path, validateAttributes on the handle.
OpenComponent(t) ==
    LET o == Resolve[Len(open[t].handles)] IN
    /\ open[t].pc = "walk" /\ Len(open[t].handles) <= Depth
    /\ o # None /\ Kind[o] = Wanted(t)
    /\ open' = [open EXCEPT ![t].handles = Append(@, o)]
    /\ UNCHANGED child

\* The component is missing, of the wrong type, a reparse point, or cannot be opened:
\* every handle is closed.
ComponentFails(t) ==
    /\ open[t].pc = "walk" /\ Len(open[t].handles) <= Depth
    /\ Fail(t)
    /\ UNCHANGED child

-----------------------------------------------------------------------
(* Open, OpenManagedImage and Close                                        *)

\* protectedComponents: the last three, without the root
Protected(hs) == {hs[k] : k \in Len(hs) - 2 .. Len(hs)}

Validate(t) ==
    LET hs == open[t].handles IN
    /\ open[t].pc = "walk" /\ Len(hs) = Depth + 1
    /\ IF Depth >= 3 /\ Protected(hs) \subseteq Valid
       THEN open' = [open EXCEPT ![t].pc = "admitted"] ELSE Fail(t)
    /\ UNCHANGED child

Close(t) ==
    /\ open[t].pc = "admitted"
    /\ Fail(t)
    /\ UNCHANGED child

\* Mutation: the components are opened with FILE_SHARE_DELETE.
ReplaceShared(d) ==
    /\ \E o \in Entry : child' = [child EXCEPT ![d] = o]
    /\ Tree(child')
    /\ UNCHANGED open

\* Someone renames, deletes or replaces what directory d holds. CreateFile shared
\* neither writing nor deletion, so this fails for a component that is held.
Replace(d) ==
    /\ child[d] \notin Held
    /\ \E o \in Entry : child' = [child EXCEPT ![d] = o]
    /\ Tree(child')
    /\ UNCHANGED open

PathNext ==
    \/ \E t \in Opener : OpenRoot(t) \/ OpenComponent(t) \/ ComponentFails(t)
                         \/ Validate(t) \/ Close(t)
    \/ \E d \in DOMAIN child : Replace(d)

PathSpec == PathInit /\ [][PathNext]_pathVars

-----------------------------------------------------------------------
(* Properties.                                                           *)

\* file_windows.go:17: the held handles keep path components from being replaced, so at
\* every moment they are the path as it is, component by component.
HandlesAreThePath ==
    \A t \in Opener : \A k \in DOMAIN open[t].handles : open[t].handles[k] = Resolve[k - 1]

\* What is admitted is a file whose parent and grandparent were validated and are still
\* where the path leads, however the tree changed during the walk.
AdmittedIsProtected ==
    \A t \in Opener : open[t].pc = "admitted" =>
      /\ {Resolve[k] : k \in Depth - 2 .. Depth} \subseteq Valid
      /\ Kind[Resolve[Depth]] = "file"

\* A path that was refused or closed is free again: no handle outlives its File.
NothingLeftHeld ==
    \A t \in Opener : open[t].pc \notin {"walk", "admitted"} => open[t].handles = <<>>

\* The inductive invariant.  It speaks of one step of the path at a time: the component
\* after a handle is what the directory of that handle holds, since no one can replace it.
PathTypeOK ==
    /\ child \in [{o \in Object : Kind[o] = "dir"} -> Entry]
    /\ open \in [Opener -> [pc : {"idle", "walk", "admitted"}, handles : Seq(Object)]]
Linked(hs) ==
    /\ hs # <<>> => hs[1] = Root
    /\ \A k \in DOMAIN hs : Kind[hs[k]] = IF k = Depth + 1 THEN "file" ELSE "dir"
    /\ \A k \in DOMAIN hs : k + 1 \in DOMAIN hs => child[hs[k]] = hs[k + 1]
OpenerInv(t) ==
    LET hs == open[t].handles IN
    /\ Linked(hs)
    /\ open[t].pc = "idle" <=> hs = <<>>
    /\ Len(hs) <= Depth + 1
    /\ open[t].pc = "admitted" => Len(hs) = Depth + 1 /\ Depth >= 3 /\ Protected(hs) \subseteq Valid
PathInv == PathTypeOK /\ \A t \in Opener : OpenerInv(t)

\* The held handles are the path as it is, component by component (file_windows.go:17);
\* what is admitted is a file on validated directories, still in place; and no handle
\* outlives its File.
HeldIsThePath == HandlesAreThePath /\ AdmittedIsProtected /\ NothingLeftHeld /\ PathInv

PathAssumption ==
    Depth \in Nat \ {0} /\ Root \in Object /\ Kind[Root] = "dir" /\ None \notin Object
========================================================================
