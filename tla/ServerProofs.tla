-------------------------- MODULE ServerProofs --------------------------
(***************************************************************************)
(* What lives as long as credproxyd does, for any number of readers, of    *)
(* launches and of projects.  With one writer of a key the file store is   *)
(* an atomic register; the sshagent provider never runs two agents for a   *)
(* project.                                                                *)
(***************************************************************************)
EXTENDS FileStore, SshAgent, TLAPS

\* The provers a leaf is tried with, in turn, unless it names its own.
USE SMT, Zenon, SMTT(30)

-----------------------------------------------------------------------
(* The file store.                                                        *)

\* A write that continues behind the first off cells of d leaves the first upto cells.
LEMMA Overlaid ==
    ASSUME NEW d \in Seq(Nat), NEW off \in Nat, NEW upto \in (off + 1) .. Len(d)
    PROVE  Overlay(SubSeq(d, 1, off), off, SubSeq(d, off + 1, upto)) = SubSeq(d, 1, upto)
<1> DEFINE old == SubSeq(d, 1, off)
           new == SubSeq(d, off + 1, upto)
<1>1. Len(d) \in Nat /\ upto \in Nat /\ upto <= Len(d) /\ off < upto
  OBVIOUS
<1>2. /\ Len(old) = off /\ \A k \in 1 .. off : old[k] = d[k]
      /\ Len(new) = upto - off /\ \A k \in 1 .. (upto - off) : new[k] = d[off + k]
  BY <1>1
<1>3. SubSeq(d, 1, upto) = [k \in 1 .. upto |-> d[k]]
  BY <1>1
<1> HIDE DEF old, new
<1>4. Overlay(old, off, new) =
        [k \in 1 .. upto |-> IF k > off /\ k <= upto THEN new[k - off]
                             ELSE IF k <= off THEN old[k] ELSE 0]
  <2>1. (IF Len(old) > off + Len(new) THEN Len(old) ELSE off + Len(new)) = upto
    BY <1>1, <1>2
  <2>2. off + Len(new) = upto /\ Len(old) = off
    BY <1>1, <1>2
  <2>3. QED
    BY <2>1, <2>2 DEF Overlay
<1>5. ASSUME NEW k \in 1 .. upto
      PROVE  (IF k > off /\ k <= upto THEN new[k - off] ELSE IF k <= off THEN old[k] ELSE 0) = d[k]
  <2>1. CASE k > off
    <3>1. k - off \in 1 .. (upto - off) /\ off + (k - off) = k
      BY <1>1, <2>1
    <3>2. QED
      BY <1>1, <1>2, <2>1, <3>1
  <2>2. CASE k <= off
    BY <1>1, <1>2, <2>2
  <2>3. QED
    BY <1>1, <2>1, <2>2
<1>6. Overlay(old, off, new) = [k \in 1 .. upto |-> d[k]]
  BY <1>4, <1>5
<1>7. QED
  BY <1>3, <1>6 DEF old, new

\* A Save that has opened its file, or written to it, is in one of its states.
LEMMA SaveStates ==
    ASSUME NEW s \in SaveState
    PROVE  /\ \A ino \in Inode : [s EXCEPT !.pc = "write", !.fd = ino] \in SaveState
           /\ \A n \in Nat, p \in {"write", "rename"} :
                [s EXCEPT !.off = n, !.pc = p] \in SaveState
  BY Zenon DEF SaveState

\* Nothing is saved at first, and nothing is open.
LEMMA InitIInv == Init => IInv
  BY InodeAssumption DEF Init, IInv, TypeOK, SaveState, IdleWriter, IdleReader, WritesAreAtomic, Held,
                         WriterHoldsTmp, NamesDiffer, ReadersHoldOld, Seen

\* Every step of one writer and the readers keeps the invariant.
LEMMA NextIInv == OneWriter /\ IInv /\ [Next]_vars => IInv'
<1> SUFFICES ASSUME OneWriter, IInv, [Next]_vars PROVE IInv'
  OBVIOUS
<1>1. TypeOK /\ WritesAreAtomic /\ WriterHoldsTmp /\ NamesDiffer /\ ReadersHoldOld
  BY DEF IInv
<1> USE <1>1, InodeAssumption
<1>2. ASSUME NEW w \in Writer, Save(w) PROVE IInv'
  <2>1. PICK d \in Data :
          writer' = [writer EXCEPT ![w] = [pc |-> "open", data |-> d, fd |-> NoInode, off |-> 0]]
    BY <1>2, Zenon DEF Save
  <2>2. content' = content /\ tmp' = tmp /\ dst' = dst /\ reader' = reader
    BY <1>2 DEF Save
  <2>3. [pc |-> "open", data |-> d, fd |-> NoInode, off |-> 0] \in SaveState
    BY DEF SaveState
  <2>4. TypeOK'
    BY <2>1, <2>2, <2>3 DEF TypeOK
  <2>5. WriterHoldsTmp'
    <3> SUFFICES ASSUME NEW v \in Writer PROVE WriterHoldsTmp!(v)'
      BY DEF WriterHoldsTmp
    <3>1. v = w /\ writer'[w] = [pc |-> "open", data |-> d, fd |-> NoInode, off |-> 0]
      BY <2>1, <2>2 DEF TypeOK, OneWriter
    <3>2. QED
      BY <3>1
  <2>6. QED
    BY <2>2, <2>4, <2>5 DEF IInv, WritesAreAtomic, Held, NamesDiffer, ReadersHoldOld, Seen
<1>3. ASSUME NEW w \in Writer, Open(w) PROVE IInv'
  <2>1. PICK ino \in Inode :
          /\ IF tmp = NoInode THEN Free(ino) ELSE ino = tmp
          /\ tmp' = ino
          /\ content' = [content EXCEPT ![ino] = <<>>]
          /\ writer' = [writer EXCEPT ![w] = [@ EXCEPT !.pc = "write", !.fd = ino]]
    BY <1>3, Zenon DEF Open
  <2>2. /\ ino # NoInode /\ ino # dst /\ \A r \in Reader : reader[r].fd # ino
        /\ dst' = dst /\ reader' = reader
    <3>1. CASE tmp = NoInode
      BY <1>3, <2>1, <3>1 DEF Free, Open
    <3>2. CASE tmp # NoInode
      BY <1>3, <2>1, <3>2 DEF NamesDiffer, ReadersHoldOld, Open
    <3>3. QED
      BY <3>1, <3>2
  <2>3. writer[w].pc = "open" /\ writer[w].data \in Data /\ \A v \in Writer : v = w
    BY <1>3 DEF Open, WriterHoldsTmp, OneWriter
  <2>4. TypeOK'
    <3>1. [writer[w] EXCEPT !.pc = "write", !.fd = ino] \in SaveState
      BY SaveStates, Zenon DEF TypeOK
    <3>2. writer' \in [Writer -> SaveState]
      BY <2>1, <3>1 DEF TypeOK
    <3>3. content' \in [Inode -> Seq(Nat)]
      BY <2>1 DEF TypeOK
    <3>4. QED
      BY <2>1, <2>2, <3>2, <3>3 DEF TypeOK
  <2>5. \A j \in Inode \cup {NoInode} : j # ino => Held(j)' = Held(j)
    BY <2>1 DEF Held, TypeOK
  <2>6. WritesAreAtomic'
    <3>1. Held(dst)' = Held(dst)
      BY <2>2, <2>5 DEF TypeOK, Held
    <3>2. QED
      BY <3>1 DEF WritesAreAtomic
  <2>7. NamesDiffer'
    BY <2>1, <2>2 DEF NamesDiffer
  <2>8. ReadersHoldOld'
    <3>1. \A r \in Reader : Seen(r)' = Seen(r)
      BY <2>2, <2>5 DEF TypeOK, Held, Seen
    <3>2. QED
      BY <2>1, <2>2, <3>1 DEF ReadersHoldOld
  <2>9. WriterHoldsTmp'
    <3>1. /\ writer'[w].pc = "write" /\ writer'[w].fd = ino /\ writer'[w].data = writer[w].data
          /\ writer'[w].off = writer[w].off /\ writer[w].off = 0
      BY <2>1, <2>3 DEF TypeOK, WriterHoldsTmp
    <3>2. SubSeq(writer[w].data, 1, 0) = <<>> /\ content'[ino] = <<>> /\ Len(writer[w].data) > 0
      BY <2>1, <2>3, DataAssumption DEF TypeOK
    <3>3. QED
      BY <2>1, <2>2, <2>3, <3>1, <3>2, ZenonT(30) DEF WriterHoldsTmp
  <2>10. QED
    BY <2>4, <2>6, <2>7, <2>8, <2>9 DEF IInv
<1>4. ASSUME NEW w \in Writer, Write(w) PROVE IInv'
  <2> DEFINE me == writer[w]
  <2>1. PICK upto \in (me.off + 1) .. Len(me.data) :
          /\ content' = [content EXCEPT ![me.fd] =
                           Overlay(@, me.off, SubSeq(me.data, me.off + 1, upto))]
          /\ writer' = [writer EXCEPT ![w] =
                          [@ EXCEPT !.off = upto,
                                    !.pc = IF upto = Len(me.data) THEN "rename" ELSE "write"]]
    BY <1>4, Zenon DEF Write
  <2>2. /\ me.pc = "write" /\ me.fd = tmp /\ tmp # NoInode /\ tmp \in Inode
        /\ content[tmp] = SubSeq(me.data, 1, me.off) /\ me.off \in Nat
        /\ me.data \in Data /\ me.data \in Seq(Nat) /\ Len(me.data) \in Nat
        /\ \A v \in Writer : v = w
    <3>1. me.pc = "write" /\ me.off \in Nat /\ \A v \in Writer : v = w
      BY <1>4 DEF Write, TypeOK, SaveState, OneWriter
    <3>2. QED
      BY <3>1, DataAssumption DEF WriterHoldsTmp, TypeOK
  <2>3. tmp' = tmp /\ dst' = dst /\ reader' = reader
    BY <1>4 DEF Write
  <2>4. content' = [content EXCEPT ![tmp] = SubSeq(me.data, 1, upto)]
    BY <2>1, <2>2, Overlaid, ZenonT(60)
  <2>5. upto \in Nat /\ upto <= Len(me.data) /\ SubSeq(me.data, 1, upto) \in Seq(Nat)
    <3>1. \A d \in Seq(Nat), o \in Nat : \A u \in (o + 1) .. Len(d) :
            u \in Nat /\ u <= Len(d) /\ SubSeq(d, 1, u) \in Seq(Nat)
      OBVIOUS
    <3>2. QED
      BY <2>2, <3>1, Zenon
  <2>6. TypeOK'
    <3>1. [me EXCEPT !.off = upto, !.pc = IF upto = Len(me.data) THEN "rename" ELSE "write"]
            \in SaveState
      BY <2>5, SaveStates, Zenon DEF TypeOK
    <3>2. writer' \in [Writer -> SaveState]
      BY <2>1, <3>1 DEF TypeOK
    <3>3. content' \in [Inode -> Seq(Nat)]
      BY <2>2, <2>4, <2>5 DEF TypeOK
    <3>4. QED
      BY <2>3, <3>2, <3>3 DEF TypeOK
  <2>7. \A j \in Inode \cup {NoInode} : j # tmp => Held(j)' = Held(j)
    BY <2>4 DEF Held, TypeOK
  <2>8. WritesAreAtomic'
    <3>1. Held(dst)' = Held(dst)
      BY <2>2, <2>3, <2>7 DEF TypeOK, Held, NamesDiffer
    <3>2. QED
      BY <3>1 DEF WritesAreAtomic
  <2>9. ReadersHoldOld'
    <3>1. \A r \in Reader : Seen(r)' = Seen(r)
      BY <2>2, <2>3, <2>7 DEF TypeOK, Held, Seen, ReadersHoldOld
    <3>2. QED
      BY <2>3, <3>1 DEF ReadersHoldOld
  <2>10. WriterHoldsTmp'
    <3>1. /\ writer'[w].off = upto /\ writer'[w].fd = tmp /\ writer'[w].data = me.data
          /\ writer'[w].pc = IF upto = Len(me.data) THEN "rename" ELSE "write"
      BY <2>1, <2>2 DEF TypeOK
    <3>2. content'[tmp] = SubSeq(me.data, 1, upto)
      BY <2>2, <2>4 DEF TypeOK
    <3> SUFFICES ASSUME NEW v \in Writer PROVE WriterHoldsTmp!(v)'
      BY DEF WriterHoldsTmp
    <3>3. v = w /\ writer'[w].off <= Len(writer'[w].data) /\ writer'[w].data \in Data
      BY <2>2, <2>5, <3>1
    <3>4. content'[tmp'] = SubSeq(writer'[w].data, 1, writer'[w].off)
      BY ONLY <2>3, <3>1, <3>2
    <3>5. /\ writer'[w].pc = "write" => writer'[w].off < Len(writer'[w].data)
          /\ writer'[w].pc = "rename" => writer'[w].off = Len(writer'[w].data)
          /\ writer'[w].pc \notin {"idle", "open"}
      BY ONLY <2>2, <2>5, <3>1
    <3>6. QED
      BY <2>2, <2>3, <3>1, <3>3, <3>4, <3>5
  <2>11. QED
    BY <2>3, <2>6, <2>8, <2>9, <2>10 DEF IInv, NamesDiffer
<1>5. ASSUME NEW w \in Writer, Rename(w) PROVE IInv'
  <2>1. /\ tmp # NoInode /\ tmp \in Inode /\ content[tmp] \in Data
        /\ \A v \in Writer : v = w
    <3>1. /\ tmp # NoInode /\ tmp \in Inode /\ writer[w].data \in Data
          /\ content[tmp] = SubSeq(writer[w].data, 1, Len(writer[w].data))
      BY <1>5, Zenon DEF Rename, WriterHoldsTmp, TypeOK
    <3>2. SubSeq(writer[w].data, 1, Len(writer[w].data)) = writer[w].data
      BY <3>1, DataAssumption
    <3>3. QED
      BY <3>1, <3>2, Zenon DEF OneWriter
  <2>2. /\ dst' = tmp /\ tmp' = NoInode /\ content' = content /\ reader' = reader
        /\ writer' = [writer EXCEPT ![w] = IdleWriter]
    BY <1>5, <2>1 DEF Rename
  <2>3. TypeOK'
    BY <2>1, <2>2 DEF TypeOK, SaveState, IdleWriter
  <2>4. QED
    BY <2>1, <2>2, <2>3 DEF IInv, TypeOK, IdleWriter, WritesAreAtomic, Held,
                            WriterHoldsTmp, NamesDiffer, ReadersHoldOld, Seen
<1>6. ASSUME NEW w \in Writer, Abandon(w) PROVE IInv'
  BY <1>6 DEF Abandon, IInv, TypeOK, SaveState, IdleWriter, WritesAreAtomic, Held,
              WriterHoldsTmp, NamesDiffer, ReadersHoldOld, Seen
<1>7. ASSUME NEW r \in Reader, Load(r) PROVE IInv'
  BY <1>7 DEF Load, IInv, TypeOK, WritesAreAtomic, Held,
              WriterHoldsTmp, NamesDiffer, ReadersHoldOld, Seen
<1>8. ASSUME NEW r \in Reader, Read(r) PROVE IInv'
  BY <1>8 DEF Read, IInv, TypeOK, IdleReader, WritesAreAtomic, Held,
              WriterHoldsTmp, NamesDiffer, ReadersHoldOld, Seen
<1>9. CASE UNCHANGED vars
  BY <1>9 DEF vars, IInv, TypeOK, WritesAreAtomic, Held,
              WriterHoldsTmp, NamesDiffer, ReadersHoldOld, Seen
<1>10. QED
  BY <1>2, <1>3, <1>4, <1>5, <1>6, <1>7, <1>8, <1>9 DEF Next

\* The key's file is always one Save's data, whole, when one goroutine saves the key.
THEOREM OneWriterIsAtomic == OneWriter => (Spec => []WritesAreAtomic)
<1> SUFFICES ASSUME OneWriter PROVE Spec => []WritesAreAtomic
  OBVIOUS
<1>1. IInv => WritesAreAtomic
  BY DEF IInv
<1>2. IInv /\ [Next]_vars => IInv'
  BY NextIInv
<1>3. QED
  BY InitIInv, <1>1, <1>2, PTL DEF Spec

-----------------------------------------------------------------------
(* The refinement: the register's save and load, as FileStore maps them.  *)

SaveMap == [w \in Writer |->
              IF writer[w].pc = "idle" THEN <<"idle">> ELSE <<"value", writer[w].data>>]
LoadMap == [r \in Reader |->
              IF reader[r].pc = "idle" THEN <<"idle">> ELSE <<"value", Seen(r)>>]

\* The register starts empty and idle.
LEMMA RegisterInit == Init => Register!Init
  BY DEF Init, Register!Init, Register!Idle, Held, IdleWriter, IdleReader

\* Each step of the store is a step of the register, or changes nothing of it.
LEMMA RegisterNext ==
    OneWriter /\ IInv /\ [Next]_vars => [Register!Next]_Register!vars
<1> SUFFICES ASSUME OneWriter, IInv, [Next]_vars PROVE [Register!Next]_Register!vars
  OBVIOUS
<1>1. TypeOK /\ WritesAreAtomic /\ WriterHoldsTmp /\ NamesDiffer /\ ReadersHoldOld
  BY DEF IInv
<1> USE <1>1, InodeAssumption
<1>stutter. ASSUME Held(dst)' = Held(dst), SaveMap' = SaveMap, LoadMap' = LoadMap
            PROVE  UNCHANGED Register!vars
  BY <1>stutter DEF Register!vars, SaveMap, LoadMap
<1>2. ASSUME NEW w \in Writer, Save(w) PROVE Register!Save(w)
  <2>1. PICK d \in Data :
          writer' = [writer EXCEPT ![w] = [pc |-> "open", data |-> d, fd |-> NoInode, off |-> 0]]
    BY <1>2, Zenon DEF Save
  <2>2. SaveMap[w] = <<"idle">> /\ SaveMap' = [SaveMap EXCEPT ![w] = <<"value", d>>]
    BY <1>2, <2>1, Zenon DEF Save, SaveMap, TypeOK
  <2>3. Held(dst)' = Held(dst) /\ LoadMap' = LoadMap
    BY <1>2 DEF Save, Held, LoadMap, Seen
  <2>4. QED
    BY <2>2, <2>3, Zenon DEF Register!Save, Register!Idle, Register!Of, SaveMap, LoadMap
<1>3. ASSUME NEW w \in Writer, Open(w) PROVE UNCHANGED Register!vars
  <2>1. PICK ino \in Inode :
          /\ IF tmp = NoInode THEN Free(ino) ELSE ino = tmp
          /\ content' = [content EXCEPT ![ino] = <<>>]
          /\ writer' = [writer EXCEPT ![w] = [@ EXCEPT !.pc = "write", !.fd = ino]]
    BY <1>3, Zenon DEF Open
  <2>2. /\ ino # NoInode /\ ino # dst /\ \A r \in Reader : reader[r].fd # ino
        /\ dst' = dst /\ reader' = reader
    <3>1. CASE tmp = NoInode
      BY <1>3, <2>1, <3>1 DEF Free, Open
    <3>2. CASE tmp # NoInode
      BY <1>3, <2>1, <3>2 DEF NamesDiffer, ReadersHoldOld, Open
    <3>3. QED
      BY <3>1, <3>2
  <2>3. Held(dst)' = Held(dst) /\ \A r \in Reader : Seen(r)' = Seen(r)
    BY <2>1, <2>2 DEF Held, Seen, TypeOK
  <2>4. SaveMap' = SaveMap
    <3>1. writer[w].pc = "open"
      BY <1>3 DEF Open
    <3>2. \A v \in Writer : /\ writer'[v].data = writer[v].data
                            /\ writer'[v].pc = "idle" <=> writer[v].pc = "idle"
      BY <2>1, <3>1 DEF TypeOK, SaveState
    <3>3. QED
      BY <3>2 DEF SaveMap
  <2>5. QED
    BY <1>stutter, <2>2, <2>3, <2>4 DEF LoadMap
<1>4. ASSUME NEW w \in Writer, Write(w) PROVE UNCHANGED Register!vars
  <2> DEFINE me == writer[w]
  <2>1. PICK upto \in (me.off + 1) .. Len(me.data) :
          /\ content' = [content EXCEPT ![me.fd] =
                           Overlay(@, me.off, SubSeq(me.data, me.off + 1, upto))]
          /\ writer' = [writer EXCEPT ![w] =
                          [@ EXCEPT !.off = upto,
                                    !.pc = IF upto = Len(me.data) THEN "rename" ELSE "write"]]
    BY <1>4, Zenon DEF Write
  <2>2. me.pc = "write" /\ me.fd = tmp /\ tmp # NoInode /\ tmp # dst
    BY <1>4 DEF Write, WriterHoldsTmp, NamesDiffer
  <2>3. dst' = dst /\ reader' = reader
    BY <1>4 DEF Write
  <2>4. Held(dst)' = Held(dst) /\ \A r \in Reader : Seen(r)' = Seen(r)
    BY <2>1, <2>2, <2>3 DEF Held, Seen, TypeOK, ReadersHoldOld
  <2>5. SaveMap' = SaveMap
    BY <2>1, <2>2, ZenonT(30) DEF SaveMap, TypeOK, SaveState
  <2>6. QED
    BY <1>stutter, <2>3, <2>4, <2>5 DEF LoadMap
<1>5. ASSUME NEW w \in Writer, Rename(w) PROVE Register!Saved(w)
  <2>1. /\ tmp # NoInode /\ writer[w].pc = "rename" /\ writer[w].data \in Data
        /\ content[tmp] = SubSeq(writer[w].data, 1, Len(writer[w].data))
    BY <1>5 DEF Rename, WriterHoldsTmp
  <2>2. content[tmp] = writer[w].data
    BY <2>1, DataAssumption
  <2>3. /\ dst' = tmp /\ content' = content /\ reader' = reader
        /\ writer' = [writer EXCEPT ![w] = IdleWriter]
    BY <1>5, <2>1 DEF Rename
  <2>4. /\ SaveMap[w] = <<"value", writer[w].data>> /\ Held(dst)' = writer[w].data
        /\ SaveMap' = [SaveMap EXCEPT ![w] = <<"idle">>]
    BY <2>1, <2>2, <2>3, Zenon DEF SaveMap, Held, TypeOK, IdleWriter
  <2>5. LoadMap' = LoadMap
    BY <2>3 DEF LoadMap, Seen, Held
  <2>6. QED
    BY <2>1, <2>4, <2>5 DEF Register!Saved, Register!Idle, Register!Of, SaveMap, LoadMap
<1>6. ASSUME NEW w \in Writer, Abandon(w) PROVE Register!NotSaved(w)
  <2>1. SaveMap[w] # <<"idle">> /\ SaveMap' = [SaveMap EXCEPT ![w] = <<"idle">>]
    BY <1>6, Zenon DEF Abandon, SaveMap, TypeOK, IdleWriter
  <2>2. Held(dst)' = Held(dst) /\ LoadMap' = LoadMap
    BY <1>6 DEF Abandon, LoadMap, Seen, Held
  <2>3. QED
    BY <2>1, <2>2 DEF Register!NotSaved, Register!Idle, SaveMap, LoadMap
<1>7. ASSUME NEW r \in Reader, Load(r) PROVE Register!Load(r)
  <2>1. LoadMap[r] = <<"idle">> /\ LoadMap' = [LoadMap EXCEPT ![r] = <<"value", Held(dst)>>]
    BY <1>7, Zenon DEF Load, LoadMap, Seen, Held, TypeOK
  <2>2. Held(dst)' = Held(dst) /\ SaveMap' = SaveMap
    BY <1>7 DEF Load, SaveMap, Held
  <2>3. QED
    BY <2>1, <2>2, Zenon DEF Register!Load, Register!Idle, Register!Of, SaveMap, LoadMap
<1>8. ASSUME NEW r \in Reader, Read(r) PROVE Register!Loaded(r)
  <2>1. LoadMap[r] # <<"idle">> /\ LoadMap' = [LoadMap EXCEPT ![r] = <<"idle">>]
    BY <1>8, Zenon DEF Read, LoadMap, Seen, Held, TypeOK, IdleReader
  <2>2. Held(dst)' = Held(dst) /\ SaveMap' = SaveMap
    BY <1>8 DEF Read, SaveMap, Held
  <2>3. QED
    BY <2>1, <2>2 DEF Register!Loaded, Register!Idle, SaveMap, LoadMap
<1>9. CASE UNCHANGED vars
  BY <1>stutter, <1>9 DEF vars, Held, SaveMap, LoadMap, Seen
<1>10. QED
  BY <1>2, <1>3, <1>4, <1>5, <1>6, <1>7, <1>8, <1>9 DEF Next, Register!Next

\* Save and Load of a key with one writer are the operations of an atomic register.
THEOREM OneWriterIsARegister == OneWriter => (Spec => ImplementsRegister)
<1> SUFFICES ASSUME OneWriter PROVE Spec => Register!Spec
  BY DEF ImplementsRegister
<1>1. IInv /\ [Next]_vars => IInv'
  BY NextIInv
<1>2. IInv /\ [Next]_vars => [Register!Next]_Register!vars
  BY RegisterNext
<1>3. QED
  BY InitIInv, RegisterInit, <1>1, <1>2, PTL DEF Spec, Register!Spec

-----------------------------------------------------------------------
(* sshagent.                                                              *)

\* The initial states satisfy the invariant.
LEMMA SInit == ASSUME SshAssumption, AgentsInit PROVE AgentsInv
<1>1. proc \in Seq(Agent) /\ DOMAIN proc = {}
  BY DEF AgentsInit
<1>2. AgentsTypeOK
  <2>1. [p |-> None, pc |-> "idle"] \in CallState
    BY DEF CallState
  <2>2. QED
    BY <1>1, <2>1, Zenon DEF AgentsInit, AgentsTypeOK
<1>3. \A c \in Caller : CallerInv(c)
  BY DEF AgentsInit, CallerInv, Awaits
<1>4. \A p \in Project : ProjectInv(p)
  BY Zenon DEF AgentsInit, ProjectInv
<1>5. QED
  BY <1>1, <1>2, <1>3, <1>4 DEF AgentsInv

\* An agent that lives and one that is registered or awaited for the same project are one.
LEMMA SUnique ==
    ASSUME SshAssumption, AgentsInv, NEW m \in DOMAIN proc, NEW n \in DOMAIN proc,
           proc[m].live, proc[n].live, proc[m].p = proc[n].p
    PROVE  m = n
<1>1. AgentInv(m) /\ AgentInv(n) /\ m \in Nat /\ n \in Nat
  BY DEF AgentsInv, AgentsTypeOK
<1>2. ASSUME NEW c \in Caller, Awaits(c) PROVE agents[caller[c].p] = None
  BY <1>2 DEF AgentsInv, CallerInv
<1>3. QED
  BY <1>1, <1>2 DEF AgentInv, SshAssumption

\* The step of a launch: the other launches keep their invariant as long as what they rely
\* on stays, and they rely on nothing while this one holds b.mu.
LEMMA SOthers ==
    ASSUME SshAssumption, AgentsInv, NEW c \in Caller, NEW e \in Caller, e # c,
           caller'[e] = caller[e], mu \in {None, c}
    PROVE  CallerInv(e)'
<1>1. CallerInv(e) /\ mu # e
  BY DEF AgentsInv, SshAssumption
<1>2. caller[e].pc # "start" /\ ~ Awaits(e)
  BY <1>1 DEF CallerInv
<1>3. QED
  BY <1>1, <1>2 DEF CallerInv, Awaits

\* Launch c goes on to a label; the others stay where they are.
LEMMA SGoto ==
    ASSUME AgentsTypeOK, NEW c \in Caller, NEW label \in {"start", "wait", "add", "spec", "error"},
           Goto(c, label)
    PROVE  /\ caller' \in [Caller -> CallState]
           /\ caller'[c].pc = label /\ caller'[c].p = caller[c].p
           /\ \A e \in Caller \ {c} : caller'[e] = caller[e]
<1> DEFINE r == [caller[c] EXCEPT !.pc = label]
<1>1. caller[c] \in CallState /\ caller \in [Caller -> CallState]
  BY DEF AgentsTypeOK
<1>2. r \in CallState /\ r.pc = label /\ r.p = caller[c].p
  BY <1>1 DEF CallState
<1>3. caller' = [caller EXCEPT ![c] = r]
  BY DEF Goto
<1> HIDE DEF r
<1>4. QED
  BY <1>1, <1>2, <1>3

\* A step of launch c that leaves the agents and their sockets alone.
LEMMA SLaunchStep ==
    ASSUME SshAssumption, AgentsInv, NEW c \in Caller, caller[c].pc \in {"idle", "lock", "spec", "error", "wait"},
           caller' \in [Caller -> CallState], \A e \in Caller \ {c} : caller'[e] = caller[e],
           UNCHANGED <<agents, proc, sock, ended>>, mu' \in Caller \cup {None},
           mu' = mu \/ mu = None, CallerInv(c)',
           Awaits(c) => Awaits(c)' /\ caller'[c].p = caller[c].p
    PROVE  AgentsInv'
<1>1. AgentsTypeOK'
  BY Zenon DEF AgentsInv, AgentsTypeOK
<1>2. ASSUME NEW e \in Caller PROVE CallerInv(e)'
  <2>1. CASE e = c
    BY <2>1
  <2>2. CASE e # c
    <3>1. CallerInv(e) /\ caller'[e] = caller[e] /\ e # None
      BY <2>2 DEF AgentsInv, SshAssumption
    <3>2. QED
      BY <3>1 DEF CallerInv, Awaits, Up
  <2>3. QED
    BY <2>1, <2>2
<1>3. ASSUME NEW n \in DOMAIN proc' PROVE AgentInv(n)'
  <2>1. AgentInv(n)
    BY DEF AgentsInv
  <2>2. ASSUME NEW e \in Caller, Awaits(e), caller[e].p = proc[n].p
        PROVE  Awaits(e)' /\ caller'[e].p = proc[n].p
    BY <2>2 DEF Awaits
  <2>3. QED
    BY <2>1, <2>2 DEF AgentInv
<1>4. \A p \in Project : ProjectInv(p)'
  BY Zenon DEF AgentsInv, ProjectInv, Up
<1>5. QED
  BY <1>1, <1>2, <1>3, <1>4, Zenon DEF AgentsInv

\* ContainerSpec is called for a project.
LEMMA SContainerSpec ==
    ASSUME SshAssumption, AgentsInv, NEW c \in Caller, NEW p \in Project, ContainerSpec(c, p)
    PROVE  AgentsInv'
<1> DEFINE r == [p |-> p, pc |-> "lock"]
<1>1. r \in CallState /\ r.p = p /\ r.pc = "lock"
  BY DEF CallState
<1>2. /\ caller' = [caller EXCEPT ![c] = r] /\ caller[c].pc \in {"idle", "spec", "error"}
      /\ UNCHANGED <<agents, proc, sock, mu, ended>>
  BY DEF ContainerSpec
<1> HIDE DEF r
<1>3. /\ caller' \in [Caller -> CallState] /\ caller'[c] = r
      /\ \A e \in Caller \ {c} : caller'[e] = caller[e]
  BY <1>1, <1>2 DEF AgentsInv, AgentsTypeOK
<1>4. CallerInv(c)'
  BY <1>1, <1>3 DEF CallerInv, Awaits
<1>5. mu' \in Caller \cup {None} /\ ~ Awaits(c)
  BY <1>2 DEF AgentsInv, AgentsTypeOK, Awaits
<1>6. QED
  BY <1>2, <1>3, <1>4, <1>5, SLaunchStep

\* keysSpec takes the lock for a project without an agent.
LEMMA SKeysSpec ==
    ASSUME SshAssumption, AgentsInv, NEW c \in Caller, KeysSpec(c) PROVE AgentsInv'
<1>1. /\ caller[c].pc = "lock" /\ mu = None /\ UNCHANGED <<agents, proc, sock, ended>>
      /\ \/ Goto(c, "spec") /\ mu' = mu
         \/ agents[caller[c].p] = None /\ Goto(c, "start") /\ mu' = c
  BY DEF KeysSpec
<1>2. AgentsTypeOK /\ CallerInv(c) /\ caller[c].p \in Project /\ mu' \in Caller \cup {None}
  BY <1>1 DEF AgentsInv, CallerInv
<1>3. /\ caller' \in [Caller -> CallState] /\ caller'[c].p = caller[c].p
      /\ \/ caller'[c].pc = "spec"
         \/ agents[caller[c].p] = None /\ caller'[c].pc = "start" /\ mu' = c
      /\ \A e \in Caller \ {c} : caller'[e] = caller[e]
  BY <1>1, <1>2, SGoto
<1>4. CallerInv(c)' /\ ~ Awaits(c)
  BY <1>1, <1>2, <1>3, ZenonT(30) DEF CallerInv, Awaits
<1>5. QED
  BY <1>1, <1>2, <1>3, <1>4, SLaunchStep

\* waitForSocket: what answers on the socket is the agent that was just started.
LEMMA SReady == ASSUME SshAssumption, AgentsInv, NEW c \in Caller, Ready(c) PROVE AgentsInv'
<1> DEFINE p == caller[c].p
<1>1. /\ caller[c].pc = "wait" /\ Live(sock[p]) /\ Goto(c, "add")
      /\ UNCHANGED <<agents, proc, sock, mu, ended>>
  BY DEF Ready
<1>2. /\ AgentsTypeOK /\ CallerInv(c) /\ p \in Project /\ mu' \in Caller \cup {None} /\ Awaits(c)
      /\ Len(proc) \in DOMAIN proc /\ proc[Len(proc)].p = p /\ agents[p] = None /\ mu = c
  BY <1>1 DEF AgentsInv, CallerInv, Awaits, AgentsTypeOK
<1>3. /\ caller' \in [Caller -> CallState] /\ caller'[c].p = p /\ caller'[c].pc = "add"
      /\ \A e \in Caller \ {c} : caller'[e] = caller[e]
  BY <1>1, <1>2, SGoto
<1>4. sock[p] = Len(proc) /\ proc[Len(proc)].live
  <2>1. sock[p] \in DOMAIN proc /\ proc[sock[p]].p = p /\ proc[sock[p]].live
    BY <1>1, <1>2 DEF AgentsInv, ProjectInv, Live
  <2>2. AgentInv(sock[p]) /\ sock[p] # None
    BY <1>1, <2>1 DEF AgentsInv, Live
  <2>3. QED
    BY <1>2, <2>1, <2>2 DEF AgentInv
<1>5. CallerInv(c)' /\ Awaits(c)'
  BY <1>1, <1>2, <1>3, <1>4 DEF CallerInv, Awaits, Up
<1>6. QED
  BY <1>1, <1>2, <1>3, <1>5, SLaunchStep

\* spawnAgent: no other agent of the project lives, for none is registered and none is
\* awaited.
LEMMA SStart == ASSUME SshAssumption, AgentsInv, NEW c \in Caller, Start(c) PROVE AgentsInv'
<1> DEFINE p == caller[c].p
           a == [p |-> p, live |-> TRUE, ctx |-> TRUE, keys |-> {}, died |-> FALSE]
<1>1. /\ caller[c].pc = "start" /\ sock' = [sock EXCEPT ![p] = None] /\ proc' = Append(proc, a)
      /\ Goto(c, "wait") /\ UNCHANGED <<agents, mu, ended>>
  BY DEF Start
<1>2. AgentsTypeOK /\ CallerInv(c) /\ p \in Project /\ agents[p] = None /\ mu = c
  BY <1>1, ZenonT(30) DEF AgentsInv, CallerInv
<1>3. /\ caller' \in [Caller -> CallState] /\ caller'[c].p = p /\ caller'[c].pc = "wait"
      /\ \A e \in Caller \ {c} : caller'[e] = caller[e]
  BY <1>1, <1>2, SGoto
<1>4. a \in Agent
  BY <1>2 DEF Agent
<1>5. a.p = p /\ a.keys = {}
  OBVIOUS
<1> HIDE DEF a
<1>6. /\ proc' \in Seq(Agent) /\ Len(proc) \in Nat /\ Len(proc') = Len(proc) + 1
      /\ DOMAIN proc' = DOMAIN proc \cup {Len(proc')} /\ Len(proc') \notin DOMAIN proc
      /\ proc'[Len(proc')] = a /\ \A n \in DOMAIN proc : proc'[n] = proc[n]
  BY <1>1, <1>2, <1>4 DEF AgentsTypeOK
<1>7. sock' \in [Project -> Nat \cup {None}] /\ \A q \in Project : sock'[q] = IF q = p THEN None ELSE sock[q]
  BY <1>1, <1>2 DEF AgentsTypeOK
<1>8. AgentsTypeOK'
  BY <1>1, <1>2, <1>3, <1>6, <1>7, Zenon DEF AgentsTypeOK
<1>9. ASSUME NEW e \in Caller PROVE CallerInv(e)'
  <2>1. CASE e = c
    BY <1>1, <1>2, <1>3, <1>5, <1>6, <2>1 DEF CallerInv, Awaits
  <2>2. CASE e # c
    BY <1>2, <1>3, <2>2, SOthers
  <2>3. QED
    BY <2>1, <2>2
<1>10. ASSUME NEW e \in Caller PROVE ~ Awaits(e)
  <2>1. CASE e = c
    BY <1>1, <2>1 DEF Awaits
  <2>2. CASE e # c
    BY <1>2, <2>2, Zenon DEF AgentsInv, CallerInv
  <2>3. QED
    BY <2>1, <2>2
<1>11. ASSUME NEW n \in DOMAIN proc' PROVE AgentInv(n)'
  <2>1. CASE n = Len(proc')
    BY <1>2, <1>3, <1>5, <1>6, <2>1 DEF AgentInv, Awaits
  <2>2. CASE n # Len(proc')
    <3>1. n \in DOMAIN proc /\ AgentInv(n) /\ proc'[n] = proc[n]
      BY <1>6, <2>2 DEF AgentsInv
    <3>2. QED
      BY <1>1, <1>10, <3>1 DEF AgentInv
  <2>3. QED
    BY <2>1, <2>2
<1>12. ASSUME NEW q \in Project PROVE ProjectInv(q)'
  <2>1. ProjectInv(q)
    BY DEF AgentsInv
  <2>2. QED
    BY <1>1, <1>2, <1>6, <1>7, <2>1 DEF ProjectInv, Up
<1>13. QED
  BY <1>8, <1>9, <1>11, <1>12, ZenonT(30) DEF AgentsInv

\* An element of a sequence is replaced.
LEMMA Replaced ==
    ASSUME NEW T, NEW s \in Seq(T), NEW n \in DOMAIN s, NEW x \in T
    PROVE  /\ [s EXCEPT ![n] = x] \in Seq(T)
           /\ DOMAIN [s EXCEPT ![n] = x] = DOMAIN s /\ Len([s EXCEPT ![n] = x]) = Len(s)
           /\ \A m \in DOMAIN s : [s EXCEPT ![n] = x][m] = IF m = n THEN x ELSE s[m]
OBVIOUS

\* What is left of an agent that is killed.
LEMMA SKilled ==
    ASSUME AgentsTypeOK, NEW n \in DOMAIN proc, proc' = [proc EXCEPT ![n].live = FALSE]
    PROVE  /\ proc' \in Seq(Agent) /\ DOMAIN proc' = DOMAIN proc /\ Len(proc') = Len(proc)
           /\ \A m \in DOMAIN proc : proc'[m].p = proc[m].p /\ proc'[m].keys = proc[m].keys
           /\ \A m \in DOMAIN proc : m # n => proc'[m] = proc[m]
           /\ ~ proc'[n].live
<1>1. proc \in Seq(Agent) /\ proc[n] \in Agent
  BY DEF AgentsTypeOK
<1> DEFINE a == [proc[n] EXCEPT !.live = FALSE]
<1>2. a \in Agent
  BY <1>1, Zenon DEF Agent
<1>3. a.p = proc[n].p /\ a.keys = proc[n].keys /\ a.live = FALSE
  BY <1>1 DEF Agent
<1>4. proc' = [proc EXCEPT ![n] = a]
  BY Zenon
<1> HIDE DEF a
<1>5. /\ proc' \in Seq(Agent) /\ DOMAIN proc' = DOMAIN proc /\ Len(proc') = Len(proc)
      /\ \A m \in DOMAIN proc : proc'[m] = IF m = n THEN a ELSE proc[m]
  <2>1. [proc EXCEPT ![n] = a] \in Seq(Agent) /\ DOMAIN [proc EXCEPT ![n] = a] = DOMAIN proc
        /\ Len([proc EXCEPT ![n] = a]) = Len(proc)
        /\ \A m \in DOMAIN proc : [proc EXCEPT ![n] = a][m] = IF m = n THEN a ELSE proc[m]
    BY <1>1, <1>2, Replaced
  <2>2. QED
    BY ONLY <1>4, <2>1, Zenon
<1>6. QED
  BY <1>3, <1>5

\* What is left of an agent that dies by itself.
LEMMA SDied ==
    ASSUME AgentsTypeOK, NEW n \in DOMAIN proc,
           proc' = [proc EXCEPT ![n].live = FALSE, ![n].died = TRUE]
    PROVE  /\ proc' \in Seq(Agent) /\ DOMAIN proc' = DOMAIN proc /\ Len(proc') = Len(proc)
           /\ \A m \in DOMAIN proc : proc'[m].p = proc[m].p /\ proc'[m].keys = proc[m].keys
           /\ \A m \in DOMAIN proc : m # n => proc'[m] = proc[m]
           /\ ~ proc'[n].live /\ proc'[n].died
<1>1. proc \in Seq(Agent) /\ proc[n] \in Agent
  BY DEF AgentsTypeOK
<1> DEFINE a == [proc[n] EXCEPT !.live = FALSE, !.died = TRUE]
<1>2. a \in Agent
  BY <1>1, Zenon DEF Agent
<1>3. a.p = proc[n].p /\ a.keys = proc[n].keys /\ a.live = FALSE /\ a.died = TRUE
  BY <1>1 DEF Agent
<1>4. proc' = [proc EXCEPT ![n] = a]
  BY <1>1, Zenon
<1> HIDE DEF a
<1>5. /\ proc' \in Seq(Agent) /\ DOMAIN proc' = DOMAIN proc /\ Len(proc') = Len(proc)
      /\ \A m \in DOMAIN proc : proc'[m] = IF m = n THEN a ELSE proc[m]
  <2>1. [proc EXCEPT ![n] = a] \in Seq(Agent) /\ DOMAIN [proc EXCEPT ![n] = a] = DOMAIN proc
        /\ Len([proc EXCEPT ![n] = a]) = Len(proc)
        /\ \A m \in DOMAIN proc : [proc EXCEPT ![n] = a][m] = IF m = n THEN a ELSE proc[m]
    BY <1>1, <1>2, Replaced
  <2>2. QED
    BY ONLY <1>4, <2>1, Zenon
<1>6. QED
  BY <1>3, <1>5, Zenon

\* A launch that fails: an agent it was waiting for is killed, and its socket, or the one
\* that was removed, is that of no registered agent.
LEMMA SFails ==
    ASSUME SshAssumption, AgentsInv, NEW c \in Caller, StartFails(c) \/ Timeout(c)
    PROVE  AgentsInv'
<1> DEFINE p == caller[c].p
<1>1. /\ caller[c].pc \in {"start", "wait"} /\ Goto(c, "error") /\ mu' = None
      /\ UNCHANGED <<agents, ended>>
  BY ZenonT(30) DEF StartFails, Timeout, Unlock
<1>2. AgentsTypeOK /\ CallerInv(c) /\ p \in Project /\ agents[p] = None /\ mu = c
  BY <1>1 DEF AgentsInv, CallerInv, Awaits
<1>3. /\ caller' \in [Caller -> CallState] /\ caller'[c].p = p /\ caller'[c].pc = "error"
      /\ \A e \in Caller \ {c} : caller'[e] = caller[e]
  BY <1>1, <1>2, SGoto
<1>4. /\ sock' \in [Project -> Nat \cup {None}]
      /\ \A q \in Project : sock'[q] = sock[q] \/ (q = p /\ sock'[q] = None)
  BY <1>2 DEF StartFails, Timeout, AgentsTypeOK
<1>5. /\ proc' \in Seq(Agent) /\ DOMAIN proc' = DOMAIN proc
      /\ \A n \in DOMAIN proc : proc'[n].p = proc[n].p /\ proc'[n].keys = proc[n].keys
      /\ \A n \in DOMAIN proc : n # Len(proc) => proc'[n] = proc[n]
      /\ caller[c].pc = "wait" /\ Len(proc) \in DOMAIN proc => ~ proc'[Len(proc)].live
      /\ caller[c].pc = "start" => proc' = proc
  <2>1. CASE StartFails(c)
    BY <1>2, <2>1 DEF StartFails, AgentsTypeOK
  <2>2. CASE Timeout(c)
    <3>1. /\ caller[c].pc = "wait" /\ Len(proc) \in DOMAIN proc
          /\ proc' = [proc EXCEPT ![Len(proc)].live = FALSE]
      BY <1>2, <2>2, Zenon DEF Timeout, CallerInv, Awaits
    <3>2. QED
      BY <1>2, <3>1, SKilled, Zenon
  <2>3. QED
    BY <2>1, <2>2
<1>6. AgentsTypeOK'
  BY <1>1, <1>2, <1>3, <1>4, <1>5, Zenon DEF AgentsTypeOK
<1>7. ASSUME NEW e \in Caller PROVE CallerInv(e)'
  <2>1. CASE e = c
    BY <1>2, <1>3, <2>1 DEF CallerInv, Awaits
  <2>2. CASE e # c
    BY <1>2, <1>3, <2>2, SOthers
  <2>3. QED
    BY <2>1, <2>2
<1>8. ASSUME NEW e \in Caller, Awaits(e) PROVE caller[c].pc = "wait"
  <2>1. e = c
    BY <1>2, <1>8, ZenonT(30) DEF AgentsInv, CallerInv
  <2>2. QED
    BY <1>1, <1>8, <2>1 DEF Awaits
<1>9. ASSUME NEW n \in DOMAIN proc' PROVE AgentInv(n)'
  <2>1. n \in DOMAIN proc /\ AgentInv(n)
    BY <1>5 DEF AgentsInv
  <2>2. QED
    BY <1>1, <1>5, <1>8, <2>1 DEF AgentInv
<1>10. ASSUME NEW q \in Project PROVE ProjectInv(q)'
  <2>1. ProjectInv(q)
    BY DEF AgentsInv
  <2>2. agents[q] # None => q # p
    BY <1>2
  <2>3. agents[q] # None => agents[q] \in DOMAIN proc /\ proc'[agents[q]] = proc[agents[q]]
    <3>1. CASE caller[c].pc = "start"
      BY <1>5, <2>1, <3>1, Zenon DEF ProjectInv
    <3>2. CASE caller[c].pc = "wait"
      <4>1. proc[Len(proc)].p = p
        BY <1>2, <3>2, Zenon DEF CallerInv, Awaits
      <4>2. QED
        BY <1>5, <2>1, <2>2, <4>1, Zenon DEF ProjectInv
    <3>3. QED
      BY <1>1, <3>1, <3>2
  <2>4. sock'[q] # None => sock'[q] \in DOMAIN proc' /\ proc'[sock'[q]].p = q
    BY <1>4, <1>5, <2>1, ZenonT(30) DEF ProjectInv
  <2>5. agents[q] # None => sock'[q] = sock[q]
    BY <1>4, <2>2, Zenon
  <2>6. QED
    BY <1>1, <1>5, <2>1, <2>3, <2>4, <2>5, Zenon DEF ProjectInv, Up
<1>11. QED
  BY <1>6, <1>7, <1>9, <1>10, Zenon DEF AgentsInv

\* addKeys and the registration of the agent: until shutdown it is the one on the socket.
LEMMA SAddKeys == ASSUME SshAssumption, AgentsInv, NEW c \in Caller, AddKeys(c) PROVE AgentsInv'
<1> DEFINE p == caller[c].p
<1>1. /\ caller[c].pc = "add" /\ Goto(c, "spec") /\ mu' = None
      /\ agents' = [agents EXCEPT ![p] = Len(proc)] /\ UNCHANGED <<sock, ended>>
  BY DEF AddKeys, Unlock
<1>2. /\ AgentsTypeOK /\ CallerInv(c) /\ p \in Project /\ agents[p] = None /\ mu = c
      /\ Len(proc) \in DOMAIN proc /\ proc[Len(proc)].p = p
      /\ ~ ended => sock[p] = Len(proc) /\ Up(Len(proc))
  BY <1>1, Zenon DEF AgentsInv, CallerInv, Awaits
<1>3. /\ caller' \in [Caller -> CallState] /\ caller'[c].p = p /\ caller'[c].pc = "spec"
      /\ \A e \in Caller \ {c} : caller'[e] = caller[e]
  BY <1>1, <1>2, SGoto
<1>4. /\ agents' \in [Project -> Nat \cup {None}] /\ agents'[p] = Len(proc) /\ Len(proc) \in Nat
      /\ \A q \in Project \ {p} : agents'[q] = agents[q]
  BY <1>1, <1>2 DEF AgentsTypeOK
<1>5. /\ proc' \in Seq(Agent) /\ DOMAIN proc' = DOMAIN proc
      /\ \A n \in DOMAIN proc : /\ proc'[n].p = proc[n].p /\ proc'[n].live = proc[n].live
                                /\ proc'[n].died = proc[n].died
                                /\ proc'[n].keys \subseteq proc[n].keys \cup Keys[proc[n].p]
  <2>1. PICK some \in SUBSET Keys[p] :
          proc' = IF Live(sock[p]) THEN [proc EXCEPT ![sock[p]].keys = @ \cup some] ELSE proc
    BY Zenon DEF AddKeys
  <2>2. CASE ~ Live(sock[p])
    BY <1>2, <2>1, <2>2 DEF AgentsTypeOK
  <2>3. CASE Live(sock[p])
    <3> DEFINE n == sock[p]
               a == [proc[n] EXCEPT !.keys = proc[n].keys \cup some]
    <3>1. n \in DOMAIN proc /\ proc[n].p = p /\ ProjectInv(p)
      BY <1>2, <2>3, ZenonT(30) DEF AgentsInv, ProjectInv, Live
    <3>2. proc \in Seq(Agent) /\ proc[n] \in Agent
      BY <1>2, <3>1 DEF AgentsTypeOK
    <3>3. proc[n].keys \cup some \in SUBSET UNION {Keys[q] : q \in Project}
      BY <1>2, <3>2, Zenon DEF Agent
    <3>4. a \in Agent
      BY <3>2, <3>3, Zenon DEF Agent
    <3>5. a.p = proc[n].p /\ a.live = proc[n].live /\ a.died = proc[n].died
          /\ a.keys = proc[n].keys \cup some
      BY <3>2 DEF Agent
    <3>6. proc' = [proc EXCEPT ![n] = a]
      BY <2>1, <2>3, Zenon
    <3> HIDE DEF a, n
    <3>7. /\ proc' \in Seq(Agent) /\ DOMAIN proc' = DOMAIN proc
          /\ \A m \in DOMAIN proc : proc'[m] = IF m = n THEN a ELSE proc[m]
      BY <3>1, <3>2, <3>4, <3>6, Replaced, Zenon
    <3>8. QED
      BY <3>1, <3>5, <3>7
  <2>4. QED
    BY <2>2, <2>3
<1>6. AgentsTypeOK'
  BY <1>1, <1>2, <1>3, <1>4, <1>5, Zenon DEF AgentsTypeOK
<1>7. ASSUME NEW e \in Caller PROVE CallerInv(e)'
  <2>1. CASE e = c
    BY <1>2, <1>3, <2>1 DEF CallerInv, Awaits
  <2>2. CASE e # c
    BY <1>2, <1>3, <2>2, SOthers
  <2>3. QED
    BY <2>1, <2>2
<1>8. ASSUME NEW n \in DOMAIN proc' PROVE AgentInv(n)'
  <2>1. n \in DOMAIN proc /\ AgentInv(n) /\ proc[n].p \in Project
    <3>1. n \in DOMAIN proc /\ AgentInv(n)
      BY <1>5, Zenon DEF AgentsInv
    <3>2. proc[n] \in Agent
      BY <1>2, <3>1 DEF AgentsTypeOK
    <3>3. QED
      BY <3>1, <3>2, Zenon DEF Agent
  <2>2. proc'[n].keys \subseteq Keys[proc'[n].p]
    BY <1>5, <2>1 DEF AgentInv
  <2>3. ASSUME proc'[n].live PROVE agents'[proc'[n].p] = n
    <3>1. CASE agents[proc[n].p] = n
      <4>1. proc[n].p # p
        BY <1>2, <1>4, <2>1, <3>1 DEF SshAssumption, AgentsTypeOK
      <4>2. QED
        BY <1>4, <1>5, <2>1, <3>1, <4>1
    <3>2. CASE n = Len(proc)
      BY <1>2, <1>4, <1>5, <2>1, <3>2
    <3>3. QED
      BY <1>5, <2>1, <2>3, <3>1, <3>2 DEF AgentInv
  <2>4. QED
    BY <2>2, <2>3 DEF AgentInv
<1>9. ASSUME NEW q \in Project PROVE ProjectInv(q)'
  <2>1. ProjectInv(q)
    BY DEF AgentsInv
  <2>2. CASE q = p
    <3>1. sock'[q] = sock[q] /\ agents'[q] = Len(proc) /\ ended' = ended
      BY <1>1, <1>4, <2>2, Zenon
    <3>2. sock[q] # None => sock[q] \in DOMAIN proc' /\ proc'[sock[q]].p = q
      BY <1>5, <2>1, Zenon DEF ProjectInv
    <3>3. Len(proc) \in DOMAIN proc' /\ proc'[Len(proc)].p = q
      BY <1>2, <1>5, <2>2, Zenon
    <3>4. ~ ended => sock[q] = Len(proc) /\ (proc'[Len(proc)].live \/ proc'[Len(proc)].died)
      BY <1>2, <1>5, <2>2, ZenonT(30) DEF Up
    <3>5. QED
      BY <3>1, <3>2, <3>3, <3>4, Zenon DEF ProjectInv, Up
  <2>3. CASE q # p
    <3>1. agents'[q] = agents[q] /\ sock' = sock /\ ended' = ended
      BY <1>1, <1>4, <2>3
    <3>2. QED
      BY <1>5, <2>1, <3>1 DEF ProjectInv, Up
  <2>4. QED
    BY <2>2, <2>3
<1>10. QED
  BY <1>6, <1>7, <1>8, <1>9, Zenon DEF AgentsInv

\* Agents lose their life or their socket, and what the invariant says of those on which
\* nothing came to bear still holds: Kept is what it asks of the registered and the ready.
LEMMA SLosses ==
    ASSUME SshAssumption, AgentsInv, UNCHANGED <<agents, mu, caller>>, ended' \in BOOLEAN,
           proc' \in Seq(Agent), DOMAIN proc' = DOMAIN proc, Len(proc') = Len(proc),
           \A n \in DOMAIN proc : /\ proc'[n].p = proc[n].p /\ proc'[n].keys = proc[n].keys
                                  /\ proc'[n].live => proc[n].live,
           sock' \in [Project -> Nat \cup {None}],
           \A p \in Project : sock'[p] # None => sock'[p] \in DOMAIN proc /\ proc[sock'[p]].p = p,
           ~ ended' => ~ ended /\ \A p \in Project, n \in DOMAIN proc :
                           sock[p] = n /\ Up(n) => sock'[p] = n /\ Up(n)'
    PROVE  AgentsInv'
<1>1. AgentsTypeOK'
  BY Zenon DEF AgentsInv, AgentsTypeOK
<1>2. ASSUME NEW c \in Caller PROVE CallerInv(c)'
  <2>1. CallerInv(c)
    BY Zenon DEF AgentsInv
  <2>2. Awaits(c)' <=> Awaits(c)
    BY ZenonT(30) DEF Awaits
  <2>3. Awaits(c) => /\ Len(proc') \in DOMAIN proc'
                       /\ proc'[Len(proc')].p = caller'[c].p
    BY <2>1 DEF CallerInv
  <2>4. ASSUME caller'[c].pc = "add", ~ ended'
        PROVE  sock'[caller'[c].p] = Len(proc') /\ Up(Len(proc))'
    <3>1. ~ ended /\ caller[c].pc = "add" /\ Awaits(c) /\ caller[c].p \in Project
      BY <2>1, <2>4, Zenon DEF CallerInv, Awaits
    <3>2. Len(proc) \in DOMAIN proc /\ sock[caller[c].p] = Len(proc) /\ Up(Len(proc))
      BY <2>1, <3>1, ZenonT(30) DEF CallerInv
    <3>3. QED
      BY <2>4, <3>1, <3>2 DEF Up
  <2>5. QED
    BY <2>1, <2>2, <2>3, <2>4, Zenon DEF CallerInv
<1>3. ASSUME NEW n \in DOMAIN proc' PROVE AgentInv(n)'
  <2>1. AgentInv(n) /\ n \in DOMAIN proc
    BY DEF AgentsInv
  <2>2. QED
    BY <2>1 DEF AgentInv, Awaits
<1>4. ASSUME NEW p \in Project PROVE ProjectInv(p)'
  <2>1. ProjectInv(p)
    BY DEF AgentsInv
  <2>2. QED
    BY <2>1 DEF ProjectInv
<1>5. QED
  BY <1>1, <1>2, <1>3, <1>4, Zenon DEF AgentsInv

\* The context is done: its end alone, and the agents it kills or that die by themselves.
LEMMA SEnds ==
    ASSUME SshAssumption, AgentsInv,
           EndContext \/ \E n \in DOMAIN proc : CtxKill(n) \/ Dies(n)
    PROVE  AgentsInv'
<1>0. /\ AgentsTypeOK /\ sock \in [Project -> Nat \cup {None}]
      /\ \A p \in Project : sock[p] # None => sock[p] \in DOMAIN proc /\ proc[sock[p]].p = p
  BY DEF AgentsInv, AgentsTypeOK, ProjectInv
<1>1. CASE EndContext
  <2>1. ended' = TRUE /\ UNCHANGED <<agents, mu, caller, proc, sock>>
    BY <1>1 DEF EndContext
  <2>2. proc' \in Seq(Agent)
    BY <1>0, <2>1 DEF AgentsTypeOK
  <2>3. QED
    BY <1>0, <2>1, <2>2, SLosses
<1>2. ASSUME NEW n \in DOMAIN proc, CtxKill(n) PROVE AgentsInv'
  <2>1. /\ proc' = [proc EXCEPT ![n].live = FALSE] /\ UNCHANGED <<agents, sock, mu, ended, caller>>
        /\ proc[n].live /\ ended'
    BY <1>2 DEF CtxKill
  <2>2. /\ proc' \in Seq(Agent) /\ DOMAIN proc' = DOMAIN proc /\ Len(proc') = Len(proc)
        /\ \A m \in DOMAIN proc : proc'[m].p = proc[m].p /\ proc'[m].keys = proc[m].keys
        /\ \A m \in DOMAIN proc : proc'[m].live => proc[m].live
    BY <1>0, <2>1, SKilled, Zenon
  <2>3. ended' \in BOOLEAN
    BY <1>0, <2>1 DEF AgentsTypeOK
  <2>4. QED
    BY <1>0, <2>1, <2>2, <2>3, SLosses
<1>3. ASSUME NEW n \in DOMAIN proc, Dies(n) PROVE AgentsInv'
  <2>1. /\ proc' = [proc EXCEPT ![n].live = FALSE, ![n].died = TRUE]
        /\ UNCHANGED <<agents, sock, mu, ended, caller>> /\ proc[n].live
    BY <1>3, Zenon DEF Dies
  <2>2. /\ proc' \in Seq(Agent) /\ DOMAIN proc' = DOMAIN proc /\ Len(proc') = Len(proc)
        /\ \A m \in DOMAIN proc : proc'[m].p = proc[m].p /\ proc'[m].keys = proc[m].keys
        /\ \A m \in DOMAIN proc : m # n => proc'[m] = proc[m]
        /\ ~ proc'[n].live /\ proc'[n].died
    BY <1>0, <2>1, SDied, Zenon
  <2>3. \A m \in DOMAIN proc : (proc'[m].live => proc[m].live) /\ (Up(m) => Up(m)')
    BY <2>1, <2>2, Zenon DEF Up
  <2>4. ended' \in BOOLEAN
    BY <1>0, <2>1 DEF AgentsTypeOK
  <2>5. QED
    BY <1>0, <2>1, <2>2, <2>3, <2>4, SLosses
<1>4. QED
  BY <1>1, <1>2, <1>3

\* watchShutdown: the registered agents end and their sockets go.
LEMMA SWatchShutdown == ASSUME SshAssumption, AgentsInv, WatchShutdown PROVE AgentsInv'
<1>0. /\ AgentsTypeOK
      /\ \A p \in Project : sock[p] # None => sock[p] \in DOMAIN proc /\ proc[sock[p]].p = p
  BY DEF AgentsInv, ProjectInv
<1>1. /\ UNCHANGED <<agents, mu, ended, caller>> /\ ended
      /\ proc' = [n \in DOMAIN proc |-> [proc[n] EXCEPT !.live = @ /\ agents[proc[n].p] # n]]
      /\ sock' = [p \in Project |-> IF agents[p] # None THEN None ELSE sock[p]]
  BY DEF WatchShutdown
<1>2. /\ sock' \in [Project -> Nat \cup {None}]
      /\ \A p \in Project : sock'[p] # None => sock'[p] = sock[p]
  BY <1>0, <1>1 DEF AgentsTypeOK
<1>3. \A n \in DOMAIN proc : proc[n] \in Agent
  BY <1>0 DEF AgentsTypeOK
<1>4. ASSUME NEW n \in DOMAIN proc
      PROVE  /\ proc'[n] \in Agent /\ proc'[n].p = proc[n].p /\ proc'[n].keys = proc[n].keys
             /\ proc'[n].live => proc[n].live
  <2>1. proc'[n] = [proc[n] EXCEPT !.live = proc[n].live /\ agents[proc[n].p] # n]
    BY <1>1
  <2>2. (proc[n].live /\ agents[proc[n].p] # n) \in BOOLEAN
    BY Zenon
  <2>3. QED
    BY <1>3, <2>1, <2>2, Zenon DEF Agent
<1>5. proc' \in Seq(Agent) /\ DOMAIN proc' = DOMAIN proc /\ Len(proc') = Len(proc)
  <2>1. Len(proc) \in Nat /\ DOMAIN proc = 1 .. Len(proc)
    BY <1>0 DEF AgentsTypeOK
  <2>2. DOMAIN proc' = 1 .. Len(proc)
    BY <1>1, <2>1
  <2>3. proc' \in [1 .. Len(proc) -> Agent]
    BY <1>1, <1>4, <2>1, <2>2, Zenon
  <2>4. QED
    BY <2>1, <2>2, <2>3
<1>6. ended' /\ ended' \in BOOLEAN
  BY <1>0, <1>1 DEF AgentsTypeOK
<1>7. QED
  BY <1>0, <1>1, <1>2, <1>4, <1>5, <1>6, SLosses, Zenon

\* ssh-agent finds its socket taken: it cannot be the agent that answers there.
LEMMA SBind ==
    ASSUME SshAssumption, AgentsInv, NEW n \in DOMAIN proc, Bind(n) PROVE AgentsInv'
<1> DEFINE p == proc[n].p
<1>0. /\ AgentsTypeOK /\ p \in Project /\ n \in Nat /\ n # None /\ proc[n].live
      /\ \A q \in Project : sock[q] # None => sock[q] \in DOMAIN proc /\ proc[sock[q]].p = q
  <2>1. AgentsTypeOK /\ \A q \in Project : ProjectInv(q)
    BY Zenon DEF AgentsInv
  <2>2. n \in Nat /\ proc[n] \in Agent
    BY <2>1 DEF AgentsTypeOK
  <2>3. p \in Project /\ n # None
    BY <2>2 DEF Agent, SshAssumption
  <2>4. proc[n].live
    BY Zenon DEF Bind
  <2>5. QED
    BY <2>1, <2>2, <2>3, <2>4, Zenon DEF ProjectInv
<1>1. sock[p] # n /\ UNCHANGED <<agents, mu, ended, caller>> /\ ended' \in BOOLEAN
  BY <1>0 DEF Bind, AgentsTypeOK
<1>2. CASE sock[p] = None /\ sock' = [sock EXCEPT ![p] = n] /\ proc' = proc
  <2>1. /\ sock' \in [Project -> Nat \cup {None}] /\ sock'[p] = n
        /\ \A q \in Project \ {p} : sock'[q] = sock[q]
    BY <1>0, <1>2 DEF AgentsTypeOK
  <2>2. \A q \in Project : sock'[q] # None => sock'[q] \in DOMAIN proc /\ proc[sock'[q]].p = q
    BY <1>0, <2>1
  <2>3. proc' \in Seq(Agent)
    BY <1>0, <1>2 DEF AgentsTypeOK
  <2>4. \A q \in Project, m \in DOMAIN proc : sock[q] = m /\ Up(m) => sock'[q] = m /\ Up(m)'
    <3>1. ASSUME NEW q \in Project, NEW m \in DOMAIN proc, sock[q] = m PROVE sock'[q] = m
      BY <1>0, <1>2, <2>1, <3>1 DEF SshAssumption, AgentsTypeOK
    <3>2. QED
      BY <1>2, <3>1, Zenon DEF Up
  <2>5. QED
    BY <1>0, <1>1, <1>2, <2>1, <2>2, <2>3, <2>4, SLosses
<1>3. CASE sock[p] # None /\ proc' = [proc EXCEPT ![n].live = FALSE] /\ sock' = sock
  <2>1. /\ proc' \in Seq(Agent) /\ DOMAIN proc' = DOMAIN proc /\ Len(proc') = Len(proc)
        /\ \A m \in DOMAIN proc : proc'[m].p = proc[m].p /\ proc'[m].keys = proc[m].keys
        /\ \A m \in DOMAIN proc : m # n => proc'[m] = proc[m]
        /\ ~ proc'[n].live
    BY <1>0, <1>3, SKilled, Zenon
  <2>2. \A q \in Project, m \in DOMAIN proc : sock[q] = m /\ Up(m) => sock'[q] = m /\ Up(m)'
    <3>1. ASSUME NEW q \in Project, NEW m \in DOMAIN proc, sock[q] = m PROVE m # n
      BY <1>0, <1>1, <3>1
    <3>2. QED
      BY <1>3, <2>1, <3>1, ZenonT(30) DEF Up
  <2>3. sock' \in [Project -> Nat \cup {None}]
        /\ \A q \in Project : sock'[q] # None => sock'[q] \in DOMAIN proc /\ proc[sock'[q]].p = q
    BY <1>0, <1>3 DEF AgentsTypeOK
  <2>4. \A m \in DOMAIN proc : proc'[m].live => proc[m].live
    BY <1>0, <2>1
  <2>5. QED
    BY <1>0, <1>1, <2>1, <2>2, <2>3, <2>4, SLosses, Zenon
<1>4. QED
  BY <1>2, <1>3, Zenon DEF Bind

\* A step of the rest of the system.
LEMMA SStutter == ASSUME AgentsInv, UNCHANGED agentsVars PROVE AgentsInv'
<1>1. UNCHANGED <<agents, proc, sock, mu, ended, caller>>
  BY DEF agentsVars
<1>2. AgentsTypeOK' /\ \A p \in Project : ProjectInv(p)'
  BY <1>1, Zenon DEF AgentsInv, AgentsTypeOK, ProjectInv, Up
<1>3. \A c \in Caller : CallerInv(c)'
  BY <1>1, Zenon DEF AgentsInv, CallerInv, Awaits, Up
<1>4. \A n \in DOMAIN proc : AgentInv(n)'
  BY <1>1, Zenon DEF AgentsInv, AgentInv, Awaits
<1>5. QED
  BY <1>1, <1>2, <1>3, <1>4, Zenon DEF AgentsInv

\* Every step keeps the invariant: one lemma for each action.
LEMMA SNext == ASSUME SshAssumption, AgentsInv, [AgentsNext]_agentsVars PROVE AgentsInv'
<1>1. ASSUME NEW c \in Caller, Call(c) PROVE AgentsInv'
  BY <1>1, SKeysSpec, SStart, SFails, SReady, SAddKeys, Zenon DEF Call
<1>2. QED
  BY <1>1, SContainerSpec, SEnds, SWatchShutdown, SBind, SStutter, Zenon DEF AgentsNext

\* The invariant of sshagent.
THEOREM SshInvariant == ASSUME SshAssumption PROVE AgentsSpec => []AgentsInv
<1>1. AgentsInit => AgentsInv
  BY SInit
<1>2. AgentsInv /\ [AgentsNext]_agentsVars => AgentsInv'
  BY SNext
<1>3. QED
  BY <1>1, <1>2, PTL DEF AgentsSpec

\* However launches of a project overlap, fail, time out and are tried again, and whatever
\* agents end by themselves, a project never has two agents running; and until shutdown the
\* agent registered for a project is the one on its socket, alive unless it has died by
\* itself, with keys of the project only.
THEOREM ProjectsKeepTheirAgents ==
    ASSUME SshAssumption PROVE AgentsSpec => []ProjectHasItsAgent
<1>1. AgentsInv => OneAgentPerProject
  BY SUnique, Zenon DEF OneAgentPerProject
<1>2. ASSUME AgentsInv, NEW p \in Project, agents[p] # None, ~ ended
      PROVE  /\ sock[p] = agents[p]
             /\ Live(sock[p]) \/ proc[agents[p]].died
             /\ proc[agents[p]].keys \subseteq Keys[p]
  <2>1. /\ ProjectInv(p) /\ agents[p] \in DOMAIN proc /\ proc[agents[p]].p = p
        /\ AgentInv(agents[p])
    BY <1>2 DEF AgentsInv, ProjectInv
  <2>2. QED
    BY <1>2, <2>1 DEF ProjectInv, AgentInv, Live, Up
<1>3. AgentsInv => RegisteredAnswers
  BY <1>2, Zenon DEF RegisteredAnswers
<1>4. AgentsInv => ProjectHasItsAgent
  BY <1>1, <1>3, Zenon DEF ProjectHasItsAgent
<1>5. QED
  BY <1>4, SshInvariant, PTL

=========================================================================
