--------------------------- MODULE FileStore ---------------------------
(***************************************************************************)
(* store.FileStore for one key: Save writes a temporary file and renames   *)
(* it over the key's file, Load reads the key's file.  Files are inodes:   *)
(* a descriptor keeps its inode when the name is renamed over or away.     *)
(***************************************************************************)
EXTENDS Naturals, Sequences

CONSTANTS
    Writer,     \* goroutines or processes that call Save
    Reader,     \* goroutines or processes that call Load
    Data,       \* byte strings that are saved, as sequences of cells
    Missing,    \* what Load finds when the key has no file
    Inode,      \* files of the directory
    NoInode

ASSUME InodeAssumption == NoInode \notin Inode
ASSUME DataAssumption ==
    Missing \notin Data /\ \A d \in Data : d \in Seq(Nat) /\ d # <<>>

VARIABLES
    content,    \* what each inode holds
    tmp, dst,   \* the inodes of the names <key>.tmp and <key>
    writer,     \* per writer: where Save is, its data, descriptor and offset
    reader      \* per reader: where Load is and its descriptor

vars == <<content, tmp, dst, writer, reader>>

IdleWriter == [pc |-> "idle", data |-> <<>>, fd |-> NoInode, off |-> 0]
IdleReader == [pc |-> "idle", fd |-> NoInode]

SaveState ==
    [pc : {"idle", "open", "write", "rename"}, data : Data \cup {<<>>},
     fd : Inode \cup {NoInode}, off : Nat]

TypeOK ==
    /\ content \in [Inode -> Seq(Nat)]
    /\ tmp \in Inode \cup {NoInode}
    /\ dst \in Inode \cup {NoInode}
    /\ writer \in [Writer -> SaveState]
    /\ reader \in [Reader -> [pc : {"idle", "read"}, fd : Inode \cup {NoInode}]]

Init ==
    /\ content = [i \in Inode |-> <<>>]
    /\ tmp = NoInode
    /\ dst = NoInode
    /\ writer = [w \in Writer |-> IdleWriter]
    /\ reader = [r \in Reader |-> IdleReader]

-----------------------------------------------------------------------
(* Save.                                                                 *)

\* The directory is made first; when that fails nothing else happens.
Save(w) ==
    /\ writer[w].pc = "idle"
    /\ \E d \in Data :
         writer' = [writer EXCEPT ![w] = [pc |-> "open", data |-> d, fd |-> NoInode, off |-> 0]]
    /\ UNCHANGED <<content, tmp, dst, reader>>

Free(i) ==
    /\ i \notin {tmp, dst}
    /\ \A w \in Writer : writer[w].fd # i
    /\ \A r \in Reader : reader[r].fd # i

\* Mutation: the key's own file is opened and written in place.
OpenInPlace(w) ==
    /\ writer[w].pc = "open"
    /\ \E i \in Inode :
         /\ IF dst = NoInode THEN Free(i) ELSE i = dst
         /\ dst' = i
         /\ content' = [content EXCEPT ![i] = <<>>]
         /\ writer' = [writer EXCEPT ![w] = [@ EXCEPT !.pc = "write", !.fd = i]]
    /\ UNCHANGED <<tmp, reader>>

\* os.WriteFile opens with O_CREATE|O_TRUNC: a .tmp left behind by an earlier Save
\* is emptied and used again.
Open(w) ==
    /\ writer[w].pc = "open"
    /\ \E i \in Inode :
         /\ IF tmp = NoInode THEN Free(i) ELSE i = tmp
         /\ tmp' = i
         /\ content' = [content EXCEPT ![i] = <<>>]
         /\ writer' = [writer EXCEPT ![w] = [@ EXCEPT !.pc = "write", !.fd = i]]
    /\ UNCHANGED <<dst, reader>>

\* A write may be short: os.File.Write then continues behind it.
Overlay(old, off, new) ==
    [k \in 1 .. (IF Len(old) > off + Len(new) THEN Len(old) ELSE off + Len(new)) |->
       IF k > off /\ k <= off + Len(new) THEN new[k - off]
       ELSE IF k <= Len(old) THEN old[k] ELSE 0]

Write(w) ==
    LET me == writer[w] IN
    /\ me.pc = "write"
    /\ \E upto \in (me.off + 1) .. Len(me.data) :
         /\ content' = [content EXCEPT ![me.fd] =
                          Overlay(@, me.off, SubSeq(me.data, me.off + 1, upto))]
         /\ writer' = [writer EXCEPT ![w] =
                         [@ EXCEPT !.off = upto,
                                   !.pc = IF upto = Len(me.data) THEN "rename" ELSE "write"]]
    /\ UNCHANGED <<tmp, dst, reader>>

\* The name .tmp may have been renamed away by another Save: then this one fails.
Rename(w) ==
    /\ writer[w].pc = "rename"
    /\ IF tmp # NoInode THEN dst' = tmp /\ tmp' = NoInode ELSE UNCHANGED <<tmp, dst>>
    /\ writer' = [writer EXCEPT ![w] = IdleWriter]
    /\ UNCHANGED <<content, reader>>

\* A step fails and Save returns its error, or the process dies.  Neither removes
\* the temporary file.
Abandon(w) ==
    /\ writer[w].pc # "idle"
    /\ writer' = [writer EXCEPT ![w] = IdleWriter]
    /\ UNCHANGED <<content, tmp, dst, reader>>

-----------------------------------------------------------------------
(* Load.                                                                 *)

Load(r) ==
    /\ reader[r].pc = "idle"
    /\ reader' = [reader EXCEPT ![r] = [pc |-> "read", fd |-> dst]]
    /\ UNCHANGED <<content, tmp, dst, writer>>

\* What the read finds is defined by Seen below; afterwards the call returns.
Read(r) ==
    /\ reader[r].pc = "read"
    /\ reader' = [reader EXCEPT ![r] = IdleReader]
    /\ UNCHANGED <<content, tmp, dst, writer>>

Held(i) == IF i = NoInode THEN Missing ELSE content[i]

Seen(r) == Held(reader[r].fd)

-----------------------------------------------------------------------
Next ==
    \/ \E w \in Writer : Save(w) \/ Open(w) \/ Write(w) \/ Rename(w) \/ Abandon(w)
    \/ \E r \in Reader : Load(r) \/ Read(r)

Spec == Init /\ [][Next]_vars

-----------------------------------------------------------------------
(* Properties.                                                           *)

\* file.go:11: writes are atomic.  The key's file is one Save's data from its first
\* byte to its last, whatever Save is running or died half way.
WritesAreAtomic == Held(dst) \in Data \cup {Missing}

\* Save and Load implement the atomic register: a Load returns what the key's file
\* held at the moment it was opened, and a Save takes effect in its rename.
Register == INSTANCE AtomicRegister WITH
    value <- Held(dst),
    save <- [w \in Writer |->
               IF writer[w].pc = "idle" THEN <<"idle">> ELSE <<"value", writer[w].data>>],
    load <- [r \in Reader |->
               IF reader[r].pc = "idle" THEN <<"idle">> ELSE <<"value", Seen(r)>>]
ImplementsRegister == Register!Spec

\* The inductive invariant: a file a reader has open is never written again, because
\* the single writer only holds the inode named .tmp.
OneWriter == \A v, w \in Writer : v = w
WriterHoldsTmp ==
    \A w \in Writer :
      /\ writer[w].pc \in {"write", "rename"} =>
           /\ writer[w].fd = tmp /\ tmp # NoInode
           /\ content[tmp] = SubSeq(writer[w].data, 1, writer[w].off)
      /\ writer[w].pc = "write" => writer[w].off < Len(writer[w].data)
      /\ writer[w].pc = "rename" => writer[w].off = Len(writer[w].data)
      /\ writer[w].pc \in {"idle", "open"} => writer[w].fd = NoInode /\ writer[w].off = 0
      /\ writer[w].pc # "idle" => writer[w].data \in Data
NamesDiffer == tmp = NoInode \/ tmp # dst
ReadersHoldOld ==
    \A r \in Reader :
      /\ Seen(r) \in Data \cup {Missing}
      /\ tmp # NoInode => reader[r].fd # tmp
IInv == TypeOK /\ WritesAreAtomic /\ WriterHoldsTmp /\ NamesDiffer /\ ReadersHoldOld
========================================================================
