-------------------------- MODULE FileTransProofs --------------------------
(***************************************************************************)
(* The safety of a file transfer, for any files and any number of chunks,  *)
(* with the timer racing the handlers and with read errors.                *)
(***************************************************************************)
EXTENDS FileTrans, SequenceTheorems, TLAPS

(* The host sends the announced file; while a handler runs there is a host. *)
Announced ==
    /\ host # NoHost => host.file = info /\ info \in Files
    /\ pc # "idle" => host # NoHost
    /\ pc = "content" => host.next < N

(* The hashed chunks are those of the file, unless the volume was full. *)
Stored ==
    IF Kind(info) \in short
    THEN Len(Content(Kind(info))) < Len(md5)
    ELSE Content(Kind(info)) = md5

(* They are from the creation of the file until the transfer ends, and still *)
(* in Complete unless the timer came in between.                             *)
Hashed ==
    /\ (receiving /\ host # NoHost) \/ pc = "info" => Stored
    /\ pc = "info" => md5 = <<>>
    /\ pc = "complete" =>
          \/ Stored
          \/ disk[Kind(info)] = Absent /\ Kind(info) \in spoiled

(* From Complete on nothing is received any more. *)
Busy == pc \in {"complete", "write", "valid"} => ~receiving

(* A picture is not shown while its file is on the way, and the copy to the *)
(* sectors is the file so far.                                              *)
Copied ==
    /\ host # NoHost /\ Kind(info) = "nft" => ~nftValid
    /\ pc \in {"write", "valid"} => Kind(info) = "nft"
    /\ pc = "write" => \/ disk["nft"] = WholeFile(info)
                       \/ disk["nft"] = Absent /\ "nft" \in spoiled
                       \/ "nft" \in short /\ (disk["nft"] = Absent \/ Len(disk["nft"]) < N)
    /\ pc = "write" /\ "nft" \notin short => \A i \in 1..N : i < sector => nftFlash[i] = WholeFile(info)[i]
    /\ pc = "valid" /\ "nft" \notin spoiled \cup short => nftFlash = WholeFile(info)

IInv ==
    /\ TypeOK
    /\ Announced
    /\ Busy
    /\ Hashed
    /\ Copied
    /\ PictureShownIsWhole
    /\ RebootWithWholeFile

USE DEF ram, flash

(* Facts about files: a host is there exactly when its file is a file. *)
LEMMA HostFile == ASSUME NEW f \in Files, NEW n PROVE [file |-> f, next |-> n] # NoHost
  BY NoFileAssumption DEF Files, NoHost

LEMMA KindIn == \A f : Kind(f) \in Kinds
  BY DEF Kind, Kinds

LEMMA NoHostType == NoHost \in [file : Files \cup {NoFile}, next : 0..N]
  BY NAssumption DEF NoHost

LEMMA FirstSector == 0 \in 0..N /\ 1 \in 1..(N + 1)
  BY NAssumption

LEMMA EmptyType == <<>> \in Seq(Chunk)
  OBVIOUS

(* A whole file is a sequence of N chunks. *)
LEMMA WholeFileSeq ==
  ASSUME NEW f \in Files
  PROVE  WholeFile(f) \in Seq(Chunk) /\ Len(WholeFile(f)) = N
  <1>1. WholeFile(f) \in [1..N -> Chunk]
    BY NAssumption DEF WholeFile, Chunk
  <1> QED
    BY <1>1, NAssumption DEF WholeFile

LEMMA InitIInv == Init => IInv
  <1> SUFFICES ASSUME Init PROVE IInv
    OBVIOUS
  <1> USE NAssumption DEF Init
  <1>1. TypeOK
    <2>1. md5 \in Seq(Chunk)
      OBVIOUS
    <2>2. host \in [file : Files \cup {NoFile}, next : 0..N]
      BY DEF NoHost
    <2>3. nftFlash \in [1..N -> Chunk \cup {Erased}]
      OBVIOUS
    <2>4. disk \in [Kinds -> Seq(Chunk) \cup {Absent}]
      OBVIOUS
    <2>5. info \in Files \cup {NoFile} /\ spoiled \subseteq Kinds /\ short \subseteq Kinds
      OBVIOUS
    <2>6. offset \in 0..N /\ sector \in 1..(N + 1)
      OBVIOUS
    <2> QED
      BY <2>1, <2>2, <2>3, <2>4, <2>5, <2>6 DEF TypeOK
  <1>2. Announced /\ Busy /\ Hashed /\ Copied
    BY DEF Announced, Busy, Hashed, Copied
  <1>3. PictureShownIsWhole /\ RebootWithWholeFile
    BY DEF PictureShownIsWhole, RebootWithWholeFile
  <1> QED
    BY <1>1, <1>2, <1>3 DEF IInv

(* The appended chunk is a chunk of the file, and appending it gives a file. *)
LEMMA AppendType ==
  ASSUME TypeOK, Announced, pc = "content"
  PROVE  /\ Received \in Chunk
         /\ Content(Kind(info)) \in Seq(Chunk)
         /\ Append(Content(Kind(info)), Received) \in Seq(Chunk)
         /\ Append(md5, Received) \in Seq(Chunk)
  <1>1. Received \in Chunk
    BY DEF TypeOK, Announced, Received, Chunk
  <1>2. Content(Kind(info)) \in Seq(Chunk)
    BY KindIn DEF TypeOK, Content
  <1> QED
    BY <1>1, <1>2, AppendProperties DEF TypeOK

LEMMA TypeStep == IInv /\ [Next]_vars => TypeOK'
  <1> SUFFICES ASSUME IInv, [Next]_vars PROVE TypeOK'
    OBVIOUS
  <1> USE NAssumption, NoHostType, EmptyType, FirstSector DEF IInv, TypeOK
  <1>1. ASSUME NEW f \in Files, InfoRefused(f) PROVE TypeOK'
    <2> USE <1>1 DEF InfoRefused, WithdrawPicture
    <2>1. isNft' \in BOOLEAN /\ nftValid' \in BOOLEAN
      OBVIOUS
    <2>2. short' \subseteq Kinds
      OBVIOUS
    <2> QED
      BY <2>1, <2>2
  <1>2. ASSUME NEW f \in Files, InfoAccepted(f) PROVE TypeOK'
    <2> USE <1>2 DEF InfoAccepted, WithdrawPicture, CreateFile
    <2>1. isNft' \in BOOLEAN /\ nftValid' \in BOOLEAN
      OBVIOUS
    <2>2. disk' \in [Kinds -> Seq(Chunk) \cup {Absent}]
      BY KindIn
    <2>3. host' \in [file : Files \cup {NoFile}, next : 0..N]
      OBVIOUS
    <2>4. pc' \in {"idle", "info"}
      OBVIOUS
    <2>5. short' \subseteq Kinds
      OBVIOUS
    <2> QED
      BY <2>1, <2>2, <2>3, <2>4, <2>5
  <1>3. CASE StartReceiving
    BY <1>3 DEF StartReceiving
  <1>4. CASE ContentChecked
    BY <1>4 DEF ContentChecked
  <1>5. CASE ContentStored
    <2>1. CASE AppendChunk
      <3> USE <1>5, <2>1 DEF ContentStored, AppendChunk
      <3>1. offset' \in 0..N
        BY DEF Announced
      <3>2. md5' \in Seq(Chunk)
        BY AppendType
      <3>3. disk' \in [Kinds -> Seq(Chunk) \cup {Absent}]
        BY KindIn, AppendType DEF Written
      <3>4. short' \subseteq Kinds
        BY KindIn DEF Written
      <3>5. host' \in [file : Files \cup {NoFile}, next : 0..N]
        BY <3>1
      <3> QED
        BY <3>1, <3>2, <3>3, <3>4, <3>5
    <2>2. CASE ~AppendChunk
      BY <1>5, <2>2 DEF ContentStored
    <2> QED
      BY <2>1, <2>2
  <1>6. CASE CompleteChecked
    BY <1>6 DEF CompleteChecked
  <1>7. CASE CompleteVerified
    <2> USE <1>7 DEF CompleteVerified
    <2>1. disk' \in [Kinds -> Seq(Chunk) \cup {Absent}]
      BY KindIn
    <2>2. pc' \in {"reboot", "write", "asserted"}
      OBVIOUS
    <2> QED
      BY <2>1, <2>2
  <1>8. CASE WriteSector
    <2> USE <1>8 DEF WriteSector
    <2>1. info \in Files
      BY DEF Announced
    <2>2. disk["nft"] \in Seq(Chunk)
      BY DEF Kinds
    <2>3. Len(disk["nft"]) <= N
      BY <2>1, <2>2, WholeFileSeq DEF Copied
    <2>4. sector \in 1..N /\ sector \in 1..Len(disk["nft"])
      BY <2>2, <2>3
    <2>5. disk["nft"][sector] \in Chunk
      BY <2>2, <2>4, ElementOfSeq
    <2> QED
      BY <2>4, <2>5
  <1>9. CASE WriteEnds
    BY <1>9 DEF WriteEnds
  <1>10. CASE ReadFails
    BY <1>10 DEF ReadFails, Kinds
  <1>11. CASE ShowPicture
    BY <1>11 DEF ShowPicture
  <1>12. CASE TimeOut
    <2> USE <1>12 DEF TimeOut
    <2>1. disk' \in [Kinds -> Seq(Chunk) \cup {Absent}]
      BY KindIn
    <2>2. spoiled' \subseteq Kinds
      BY KindIn
    <2> QED
      BY <2>1, <2>2
  <1>13. CASE HostLeaves
    BY <1>13 DEF HostLeaves
  <1>14. CASE Restart
    BY <1>14 DEF Restart
  <1>15. CASE UNCHANGED vars
    BY <1>15 DEF vars
  <1> QED
    BY <1>1, <1>2, <1>3, <1>4, <1>5, <1>6, <1>7, <1>8, <1>9, <1>10, <1>11, <1>12,
       <1>13, <1>14, <1>15 DEF Next, Handler

LEMMA AnnouncedStep == IInv /\ [Next]_vars => Announced' /\ Busy'
  <1> SUFFICES ASSUME IInv, [Next]_vars PROVE Announced' /\ Busy'
    OBVIOUS
  <1> USE DEF IInv, Announced, Busy
  <1>1. ASSUME NEW f \in Files, InfoRefused(f) \/ InfoAccepted(f) PROVE Announced' /\ Busy'
    <2>1. CASE InfoRefused(f)
      BY <2>1 DEF InfoRefused
    <2>2. CASE InfoAccepted(f)
      BY <2>2, <1>1, HostFile DEF InfoAccepted, CreateFile
    <2> QED
      BY <1>1, <2>1, <2>2
  <1>2. CASE ContentStored
    <2>1. host'.file = host.file
      BY <1>2 DEF ContentStored, AppendChunk, TypeOK
    <2>2. host # NoHost /\ info' = info /\ pc' = "idle"
      BY <1>2 DEF ContentStored
    <2> QED
      BY <2>1, <2>2
  <1>3. CASE StartReceiving \/ ContentChecked \/ CompleteChecked \/ CompleteVerified
    BY <1>3 DEF StartReceiving, ContentChecked, CompleteChecked, CompleteVerified
  <1>4. CASE WriteSector \/ WriteEnds \/ ReadFails \/ ShowPicture
    BY <1>4 DEF WriteSector, WriteEnds, ReadFails, ShowPicture
  <1>5. CASE TimeOut \/ HostLeaves \/ Restart
    BY <1>5 DEF TimeOut, HostLeaves, Restart
  <1>6. CASE UNCHANGED vars
    BY <1>6 DEF vars
  <1> QED
    BY <1>1, <1>2, <1>3, <1>4, <1>5, <1>6 DEF Next, Handler

(* A chunk that is hashed and written, wholly or not. *)
LEMMA StoredAfter ==
  ASSUME IInv, ContentStored, Written, md5' = Append(md5, Received), receiving, host # NoHost
  PROVE  Stored'
  <1>1. pc = "content" /\ info' = info /\ Kind(info) \in Kinds
    BY KindIn DEF ContentStored
  <1>2. /\ Received \in Chunk /\ md5 \in Seq(Chunk)
        /\ Content(Kind(info)) \in Seq(Chunk)
        /\ Append(Content(Kind(info)), Received) \in Seq(Chunk)
    BY <1>1, AppendType DEF IInv, TypeOK
  <1>3. Len(md5') = Len(md5) + 1 /\ Len(md5) \in Nat
    BY <1>2
  <1>4. Stored
    BY DEF IInv, Hashed
  <1>5. CASE /\ disk' = [disk EXCEPT ![Kind(info)] = Append(Content(Kind(info)), Received)]
             /\ UNCHANGED short
    <2>1. disk'[Kind(info)] = Append(Content(Kind(info)), Received)
      BY <1>1, <1>5 DEF IInv, TypeOK
    <2>2. (Content(Kind(info)))' = Append(Content(Kind(info)), Received)
      BY <1>1, <1>2, <2>1, AbsentAssumption DEF Content
    <2>3. Len((Content(Kind(info)))') = Len(Content(Kind(info))) + 1 /\ Len(Content(Kind(info))) \in Nat
      BY <1>2, <2>2
    <2> QED
      BY <1>1, <1>3, <1>4, <1>5, <2>2, <2>3 DEF Stored
  <1>6. CASE /\ disk' = [disk EXCEPT ![Kind(info)] = Content(Kind(info))]
             /\ short' = short \cup {Kind(info)}
    <2>1. disk'[Kind(info)] = Content(Kind(info))
      BY <1>1, <1>6 DEF IInv, TypeOK
    <2>2. (Content(Kind(info)))' = Content(Kind(info))
      BY <1>1, <1>2, <2>1, AbsentAssumption DEF Content
    <2>3. Len(Content(Kind(info))) <= Len(md5) /\ Len(Content(Kind(info))) \in Nat
      BY <1>2, <1>3, <1>4 DEF Stored
    <2> QED
      BY <1>1, <1>3, <1>6, <2>2, <2>3 DEF Stored
  <1> QED
    BY <1>5, <1>6 DEF Written

LEMMA HashedStep == IInv /\ [Next]_vars => Hashed'
  <1> SUFFICES ASSUME IInv, [Next]_vars PROVE Hashed'
    OBVIOUS
  <1> USE DEF IInv, Hashed, Content, Stored
  <1>t. \A n : n \in Kinds => n \in DOMAIN disk
    BY DEF TypeOK
  <1>1. ASSUME NEW f \in Files, InfoRefused(f) PROVE Hashed'
    BY <1>1 DEF InfoRefused
  <1>2. ASSUME NEW f \in Files, InfoAccepted(f) PROVE Hashed'
    BY <1>2, <1>t, KindIn DEF InfoAccepted, CreateFile
  <1>3. CASE StartReceiving \/ ContentChecked \/ CompleteChecked
    BY <1>3 DEF StartReceiving, ContentChecked, CompleteChecked, Announced
  <1>4. CASE ContentStored
    <2> USE <1>4, <1>t, KindIn DEF ContentStored
    <2>1. CASE AppendChunk
      <3>1. host # NoHost
        BY DEF Announced
      <3>2. CASE UNCHANGED <<disk, md5, host, short>>
        BY <3>2
      <3>3. CASE Written /\ md5' = Append(md5, Received)
        <4>1. receiving => Stored'
          BY <3>1, <3>3, StoredAfter
        <4>2. info' = info /\ receiving' = receiving /\ pc' = "idle"
          BY <1>4
        <4> QED
          BY <4>1, <4>2
      <3> QED
        BY <2>1, <3>2, <3>3 DEF AppendChunk
    <2>2. CASE ~AppendChunk
      BY <2>2
    <2> QED
      BY <2>1, <2>2
  <1>5. CASE CompleteVerified \/ WriteSector \/ WriteEnds \/ ReadFails \/ ShowPicture
    <2>1. pc' \notin {"info", "complete"} /\ ~(receiving' /\ host' # NoHost)
      BY <1>5 DEF CompleteVerified, WriteSector, WriteEnds, ReadFails, ShowPicture, Busy
    <2> QED
      BY <2>1
  <1>6. CASE TimeOut
    BY <1>6, <1>t, KindIn, AbsentAssumption, EmptyType DEF TimeOut
  <1>7. CASE HostLeaves \/ Restart
    BY <1>7 DEF HostLeaves, Restart
  <1>8. CASE UNCHANGED vars
    BY <1>8 DEF vars
  <1> QED
    BY <1>1, <1>2, <1>3, <1>4, <1>5, <1>6, <1>7, <1>8 DEF Next, Handler

(* CompleteVerified starts the copy to the sectors only when the hashed    *)
(* chunks, which are those on the disk unless the timer took the file      *)
(* away, are the announced file.                                           *)
LEMMA CopiedStep == IInv /\ [Next]_vars => Copied'
  <1> SUFFICES ASSUME IInv, [Next]_vars PROVE Copied'
    OBVIOUS
  <1> USE DEF IInv, Copied
  <1>1. ASSUME NEW f \in Files, InfoRefused(f) \/ InfoAccepted(f) PROVE Copied'
    BY <1>1 DEF InfoRefused, InfoAccepted, WithdrawPicture, CreateFile
  <1>2. CASE StartReceiving \/ ContentChecked \/ CompleteChecked
    BY <1>2 DEF StartReceiving, ContentChecked, CompleteChecked
  <1>3. CASE ContentStored
    BY <1>3 DEF ContentStored, AppendChunk, Announced
  <1>4. CASE CompleteVerified
    <2> USE <1>4 DEF CompleteVerified
    <2>1. host # NoHost /\ host.file = info /\ info \in Files
      BY DEF Announced
    <2>2. CASE md5 = WholeFile(info) /\ Kind(info) = "nft"
      <3>1. \/ disk["nft"] = md5
            \/ disk["nft"] = Absent /\ "nft" \in spoiled
            \/ "nft" \in short /\ (disk["nft"] = Absent \/ Len(disk["nft"]) < N)
        <4>1. CASE "nft" \notin short
          <5>1. md5 # <<>>
            BY <2>1, <2>2, WholeFileSeq, NAssumption
          <5> QED
            BY <2>2, <4>1, <5>1 DEF Hashed, Stored, Content
        <4>2. CASE "nft" \in short
          <5>1. Len(md5) = N
            BY <2>1, <2>2, WholeFileSeq
          <5> QED
            BY <2>2, <4>2, <5>1 DEF Hashed, Stored, Content
        <4> QED
          BY <4>1, <4>2
      <3>2. \A i \in 1..N : ~(i < 1)
        OBVIOUS
      <3> QED
        BY <2>1, <2>2, <3>1, <3>2
    <2>3. CASE ~(md5 = WholeFile(info) /\ Kind(info) = "nft")
      BY <2>1, <2>3 DEF Kind
    <2> QED
      BY <2>2, <2>3
  <1>5. CASE WriteSector
    <2> USE <1>5 DEF WriteSector
    <2>1. CASE "nft" \in short
      BY <2>1
    <2>2. CASE "nft" \notin short
      <3>1. disk["nft"] = WholeFile(info) /\ info \in Files
        BY <2>2 DEF Announced
      <3>2. nftFlash' = [nftFlash EXCEPT ![sector] = WholeFile(info)[sector]] /\ sector' = sector + 1
        BY <3>1
      <3>3. \A i \in 1..N : i < sector' => nftFlash'[i] = WholeFile(info)[i]
        BY <2>2, <3>2 DEF TypeOK
      <3> QED
        BY <3>1, <3>3
    <2> QED
      BY <2>1, <2>2
  <1>6. CASE WriteEnds
    <2> USE <1>6 DEF WriteEnds
    <2>1. CASE "nft" \notin spoiled \cup short
      <3>1. sector > N
        BY <2>1, WholeFileSeq, AbsentAssumption DEF Announced
      <3>2. \A i \in 1..N : nftFlash[i] = WholeFile(info)[i]
        <4>1. sector \in Int /\ N \in Int
          BY NAssumption DEF TypeOK
        <4>2. \A i \in 1..N : i < sector
          BY <3>1, <4>1
        <4> QED
          BY <2>1, <4>2
      <3>3. nftFlash = [i \in 1..N |-> WholeFile(info)[i]]
        BY <3>2 DEF TypeOK
      <3>4. WholeFile(info) = [i \in 1..N |-> WholeFile(info)[i]]
        BY DEF WholeFile
      <3> QED
        BY <3>3, <3>4
    <2>2. CASE "nft" \in spoiled \cup short
      BY <2>2
    <2> QED
      BY <2>1, <2>2
  <1>7. CASE ReadFails \/ ShowPicture
    BY <1>7 DEF ReadFails, ShowPicture
  <1>8. CASE TimeOut
    BY <1>8 DEF TimeOut
  <1>9. CASE HostLeaves \/ Restart
    BY <1>9 DEF HostLeaves, Restart
  <1>10. CASE UNCHANGED vars
    BY <1>10 DEF vars
  <1> QED
    BY <1>1, <1>2, <1>3, <1>4, <1>5, <1>6, <1>7, <1>8, <1>9, <1>10 DEF Next, Handler

(* nftValid is set by ShowPicture alone, after the copy; it is false while a *)
(* picture is on the way, so the sectors change only then.                   *)
LEMMA PictureStep == IInv /\ [Next]_vars => PictureShownIsWhole'
  <1> SUFFICES ASSUME IInv, [Next]_vars PROVE PictureShownIsWhole'
    OBVIOUS
  <1> USE DEF IInv, PictureShownIsWhole
  <1>1. ASSUME NEW f \in Files, InfoRefused(f) \/ InfoAccepted(f) PROVE PictureShownIsWhole'
    BY <1>1 DEF InfoRefused, InfoAccepted, WithdrawPicture
  <1>2. CASE StartReceiving \/ ContentChecked \/ ContentStored \/ CompleteChecked
    <2>1. UNCHANGED <<nftValid, nftFlash, spoiled>> /\ short \subseteq short'
      BY <1>2 DEF StartReceiving, ContentChecked, ContentStored, CompleteChecked,
                  AppendChunk, Written
    <2> QED
      BY <2>1
  <1>3. CASE CompleteVerified \/ WriteEnds
    BY <1>3 DEF CompleteVerified, WriteEnds
  <1>4. CASE WriteSector \/ ReadFails
    BY <1>4 DEF WriteSector, ReadFails, Announced, Copied
  <1>5. CASE ShowPicture
    <2>1. info \in NftFiles
      BY <1>5 DEF ShowPicture, Announced, Copied, Kind
    <2> QED
      BY <1>5, <2>1 DEF ShowPicture, Copied
  <1>6. CASE TimeOut
    BY <1>6 DEF TimeOut
  <1>7. CASE HostLeaves \/ Restart
    BY <1>7 DEF HostLeaves, Restart
  <1>8. CASE UNCHANGED vars
    BY <1>8 DEF vars
  <1> QED
    BY <1>1, <1>2, <1>3, <1>4, <1>5, <1>6, <1>7, <1>8 DEF Next, Handler

(* The disk holds what was hashed when Complete finds the announced MD5. *)
LEMMA RebootStep == IInv /\ [Next]_vars => RebootWithWholeFile'
  <1> SUFFICES ASSUME IInv, [Next]_vars PROVE RebootWithWholeFile'
    OBVIOUS
  <1> USE DEF IInv, RebootWithWholeFile
  <1>1. ASSUME NEW f \in Files, InfoRefused(f) \/ InfoAccepted(f) PROVE RebootWithWholeFile'
    BY <1>1 DEF InfoRefused, InfoAccepted, CreateFile
  <1>2. CASE StartReceiving \/ ContentChecked \/ ContentStored \/ CompleteChecked
    BY <1>2 DEF StartReceiving, ContentChecked, ContentStored, CompleteChecked
  <1>3. CASE CompleteVerified
    <2> USE <1>3 DEF CompleteVerified
    <2>1. CASE pc' = "reboot" /\ "fw" \notin spoiled \cup short
      <3>1. Kind(info) = "fw" /\ md5 = WholeFile(info) /\ info \in Files
        BY <2>1 DEF Announced
      <3>2. Content("fw") = md5
        BY <2>1, <3>1 DEF Hashed, Stored
      <3>3. md5 # <<>>
        BY <3>1, WholeFileSeq, NAssumption
      <3> QED
        BY <2>1, <3>1, <3>2, <3>3 DEF Content
    <2>2. CASE ~(pc' = "reboot" /\ "fw" \notin spoiled \cup short)
      BY <2>2
    <2> QED
      BY <2>1, <2>2
  <1>4. CASE WriteSector \/ WriteEnds \/ ReadFails \/ ShowPicture
    BY <1>4 DEF WriteSector, WriteEnds, ReadFails, ShowPicture
  <1>5. CASE TimeOut
    BY <1>5 DEF TimeOut
  <1>6. CASE HostLeaves \/ Restart
    BY <1>6 DEF HostLeaves, Restart
  <1>7. CASE UNCHANGED vars
    BY <1>7 DEF vars
  <1> QED
    BY <1>1, <1>2, <1>3, <1>4, <1>5, <1>6, <1>7 DEF Next, Handler

(* The invariant holds from the start and every step keeps it. *)
THEOREM Inductive == Spec => []IInv
  <1>1. Init => IInv
    BY InitIInv
  <1>2. IInv /\ [Next]_vars => IInv'
    BY TypeStep, AnnouncedStep, HashedStep, CopiedStep, PictureStep, RebootStep DEF IInv
  <1> QED
    BY <1>1, <1>2, PTL DEF Spec

(* A picture that is shown is one whole verified picture: neither a power   *)
(* loss nor a host that leaves can put nftValid over torn sectors           *)
(* (service_file_trans.c:490-599).                                          *)
THEOREM PictureWhole == Spec => []PictureShownIsWhole
  BY Inductive, PTL DEF IInv

(* SystemReboot in the firmware's Complete is reached only over the whole   *)
(* announced firmware on the disk (service_file_trans.c:367-418).           *)
THEOREM RebootWhole == Spec => []RebootWithWholeFile
  BY Inductive, PTL DEF IInv

(* The MD5 is that of the file that is written (service_file_trans.c:334-339). *)
THEOREM Md5OfFile == Spec => []HashedIsWritten
  <1>1. IInv => HashedIsWritten
    BY DEF IInv, Hashed, Stored, HashedIsWritten
  <1> QED
    BY <1>1, Inductive, PTL

-----------------------------------------------------------------------------
(* What the device has hashed after n chunks of file f, with g_isNftFile set *)
(* or not: an encrypted chunk is decrypted exactly when it is clear.         *)
Fed(f, nft, n) ==
    [i \in 1..n |-> [file |-> f, number |-> i - 1, plain |-> nft <=> (Kind(f) = "nft")]]

(* The host's next chunk is the one the device expects, or the device has    *)
(* just stored it and the reply was lost; an announced picture has set       *)
(* g_isNftFile, so that only a firmware can be stored without decryption.    *)
FedSoFar ==
    host # NoHost /\ (receiving \/ pc \in {"info", "content"}) /\ Kind(info) \notin spoiled =>
        /\ offset \in {host.next, host.next + 1}
        /\ offset = host.next => md5 = Fed(info, isNft, host.next)
        /\ Kind(info) = "nft" => isNft

FedWhole ==
    pc = "complete" /\ Kind(info) \notin spoiled =>
        md5 = WholeFile(info) \/ (Kind(info) = "fw" /\ isNft)

FedInv == FedSoFar /\ FedWhole /\ AssertOnlyAfterPicture

LEMMA FedNothing == \A f, nft : Fed(f, nft, 0) = <<>>
  BY DEF Fed

LEMMA FedOneMore ==
  ASSUME NEW f \in Files, NEW nft \in BOOLEAN, NEW n \in Nat, NEW c,
         c = [file |-> f, number |-> n, plain |-> nft <=> (Kind(f) = "nft")]
  PROVE  Append(Fed(f, nft, n), c) = Fed(f, nft, n + 1)
  <1>1. Fed(f, nft, n) \in Seq([file : Files, number : Nat, plain : BOOLEAN])
    BY DEF Fed
  <1>2. Len(Fed(f, nft, n)) = n
    BY DEF Fed
  <1>3. Append(Fed(f, nft, n), c) =
           [i \in 1..(n + 1) |-> IF i = n + 1 THEN c ELSE Fed(f, nft, n)[i]]
    BY <1>1, <1>2
  <1>4. ASSUME NEW i \in 1..(n + 1)
        PROVE  (IF i = n + 1 THEN c ELSE Fed(f, nft, n)[i])
                 = [file |-> f, number |-> i - 1, plain |-> nft <=> (Kind(f) = "nft")]
    <2>1. CASE i = n + 1
      BY <2>1
    <2>2. CASE i # n + 1
      BY <2>2 DEF Fed
    <2> QED
      BY <2>1, <2>2
  <1> QED
    BY <1>3, <1>4 DEF Fed

(* Decrypted, the chunks are the file. *)
LEMMA FedIsFile ==
  ASSUME NEW f \in Files, NEW nft \in BOOLEAN, nft <=> (Kind(f) = "nft")
  PROVE  Fed(f, nft, N) = WholeFile(f)
  BY DEF Fed, WholeFile

LEMMA FedInfoStep ==
  ASSUME IInv, FedInv, NEW f \in Files, InfoRefused(f) \/ InfoAccepted(f)
  PROVE  FedInv'
  <1>1. pc = "idle" /\ pc' \in {"idle", "info"} /\ offset' = 0 /\ info' = f
    BY DEF InfoRefused, InfoAccepted, CreateFile
  <1>2. host' = NoHost \/ (host'.next = 0 /\ md5' = <<>>)
    BY DEF InfoRefused, InfoAccepted, CreateFile
  <1>3. Kind(f) = "nft" => isNft'
    BY DEF InfoRefused, InfoAccepted, WithdrawPicture
  <1> QED
    BY <1>1, <1>2, <1>3, FedNothing DEF FedInv, FedSoFar, FedWhole, AssertOnlyAfterPicture

LEMMA FedContentStep ==
  ASSUME IInv, FedInv, ContentStored
  PROVE  FedInv'
  <1>1. /\ pc = "content" /\ pc' = "idle"
        /\ isNft' = isNft /\ info' = info /\ spoiled' = spoiled
    BY DEF ContentStored
  <1>2. /\ host # NoHost /\ host.file = info /\ info \in Files
        /\ host.next \in Nat /\ offset \in Nat /\ isNft \in BOOLEAN
    BY <1>1, NAssumption DEF IInv, Announced, TypeOK
  <1>3. FedWhole' /\ AssertOnlyAfterPicture'
    BY <1>1 DEF FedWhole, AssertOnlyAfterPicture
  <1>4. ASSUME Kind(info) \notin spoiled PROVE FedSoFar'
    <2>1. /\ offset \in {host.next, host.next + 1}
          /\ offset = host.next => md5 = Fed(info, isNft, host.next)
          /\ Kind(info) = "nft" => isNft
      BY <1>1, <1>2, <1>4 DEF FedInv, FedSoFar
    <2>2. CASE offset' = offset + 1 /\ offset = host.next
      <3>1. CASE host'.next = host.next
        BY <1>1, <1>2, <2>1, <2>2, <3>1 DEF FedSoFar
      <3>2. CASE md5' = Append(md5, Received) /\ host'.next = host.next + 1
        <4>1. md5' = Fed(info, isNft, host.next + 1)
          <5>1. Received = [file |-> info, number |-> host.next,
                            plain |-> isNft <=> (Kind(info) = "nft")]
            BY <1>2 DEF Received
          <5> QED
            BY <1>2, <2>1, <2>2, <3>2, <5>1, FedOneMore
        <4> QED
          BY <1>1, <1>2, <2>1, <2>2, <3>2, <4>1 DEF FedSoFar
      <3> QED
        <4>1. host \in [file : Files \cup {NoFile}, next : 0..N]
          BY DEF IInv, TypeOK
        <4> QED
          BY <1>2, <2>2, <3>1, <3>2, <4>1 DEF ContentStored, AppendChunk
    <2>3. CASE offset # host.next /\ UNCHANGED <<offset, md5, host>>
      BY <1>1, <2>1, <2>3 DEF FedSoFar
    <2> QED
      BY <2>2, <2>3 DEF ContentStored, AppendChunk
  <1>5. ASSUME Kind(info) \in spoiled PROVE FedSoFar'
    BY <1>1, <1>5 DEF FedSoFar
  <1> QED
    BY <1>3, <1>4, <1>5 DEF FedInv

(* The last chunk was acknowledged, so all of them were hashed. *)
LEMMA FedCompleteStep ==
  ASSUME IInv, FedInv, CompleteChecked
  PROVE  FedInv'
  <1>1. /\ pc = "idle" /\ receiving /\ host # NoHost /\ host.next = N
        /\ pc' = "complete" /\ receiving' = FALSE
        /\ info' = info /\ md5' = md5 /\ spoiled' = spoiled
        /\ isNft' = (isNft /\ Kind(host.file) = "fw")
    BY DEF CompleteChecked
  <1>2. host.file = info /\ info \in Files /\ offset \in 0..N /\ isNft \in BOOLEAN
    BY <1>1 DEF IInv, Announced, TypeOK
  <1>3. ASSUME Kind(info) \notin spoiled
        PROVE  md5 = WholeFile(info) \/ (Kind(info) = "fw" /\ isNft)
    <2>1. offset = N
      BY <1>1, <1>2, <1>3, NAssumption DEF FedInv, FedSoFar
    <2>2. md5 = Fed(info, isNft, N) /\ (Kind(info) = "nft" => isNft)
      BY <1>1, <1>3, <2>1 DEF FedInv, FedSoFar
    <2>3. Kind(info) \in {"fw", "nft"}
      BY DEF Kind
    <2> QED
      BY <1>2, <2>2, <2>3, FedIsFile
  <1>4. FedWhole'
    BY <1>1, <1>2, <1>3 DEF FedWhole
  <1>5. FedSoFar' /\ AssertOnlyAfterPicture'
    BY <1>1 DEF FedSoFar, AssertOnlyAfterPicture
  <1> QED
    BY <1>4, <1>5 DEF FedInv

(* A timer that fires between two handlers ends the transfer; inside one it  *)
(* spoils it.                                                                *)
LEMMA FedTimeOutStep ==
  ASSUME IInv, FedInv, TimeOut
  PROVE  FedInv'
  <1>1. /\ pc' = pc /\ info' = info /\ receiving' = FALSE
        /\ pc \in {"idle", "info", "content", "complete"}
        /\ pc # "idle" => Kind(info) \in spoiled'
    BY DEF TimeOut
  <1> QED
    BY <1>1 DEF FedInv, FedSoFar, FedWhole, AssertOnlyAfterPicture

LEMMA FedStep == IInv /\ FedInv /\ [Next]_vars => FedInv'
  <1> SUFFICES ASSUME IInv, FedInv, [Next]_vars PROVE FedInv'
    OBVIOUS
  <1>1. CASE StartReceiving \/ ContentChecked
    BY <1>1 DEF StartReceiving, ContentChecked, FedInv, FedSoFar, FedWhole, AssertOnlyAfterPicture
  <1>2. CASE CompleteVerified
    <2>1. host # NoHost /\ host.file = info
      BY <1>2 DEF CompleteVerified, IInv, Announced
    <2>2. ~receiving' /\ pc' \in {"reboot", "write", "asserted"}
      BY <1>2 DEF CompleteVerified, IInv, Busy
    <2>3. AssertOnlyAfterPicture'
      BY <1>2, <2>1 DEF CompleteVerified, FedInv, FedWhole, AssertOnlyAfterPicture
    <2> QED
      BY <2>2, <2>3 DEF FedInv, FedSoFar, FedWhole
  <1>3. CASE WriteSector \/ WriteEnds \/ ReadFails \/ ShowPicture
    <2>1. pc' \in {"write", "valid", "idle"} /\ ~receiving'
      BY <1>3 DEF WriteSector, WriteEnds, ReadFails, ShowPicture, IInv, Busy
    <2> QED
      BY <2>1 DEF FedInv, FedSoFar, FedWhole, AssertOnlyAfterPicture
  <1>4. CASE HostLeaves \/ Restart
    <2>1. host' = NoHost /\ pc' = "idle"
      BY <1>4 DEF HostLeaves, Restart
    <2> QED
      BY <2>1 DEF FedInv, FedSoFar, FedWhole, AssertOnlyAfterPicture
  <1>5. CASE UNCHANGED vars
    BY <1>5 DEF vars, FedInv, FedSoFar, FedWhole, AssertOnlyAfterPicture
  <1> QED
    BY <1>1, <1>2, <1>3, <1>4, <1>5, FedInfoStep, FedContentStep, FedCompleteStep,
       FedTimeOutStep DEF Next, Handler

(* ASSERT(false) at the end of a transfer means a left-over g_isNftFile or   *)
(* a timer inside a handler, whatever the host re-announces, repeats or      *)
(* abandons (service_file_trans.c:402, 583).                                 *)
THEOREM AssertsOnlyAfterPicture == Spec => []AssertOnlyAfterPicture
  <1>1. Init => FedInv
    BY DEF Init, FedInv, FedSoFar, FedWhole, AssertOnlyAfterPicture
  <1>2. FedInv => AssertOnlyAfterPicture
    BY DEF FedInv
  <1> QED
    BY <1>1, <1>2, Inductive, FedStep, PTL DEF Spec
=============================================================================
