------------------------- MODULE FingerprintProofs -------------------------
(***************************************************************************)
(* What the fingerprint manager, the secure element and the module agree   *)
(* on, for any number of requests, lost frames and power failures.  The    *)
(* line between them and the queue of counters say which operation is      *)
(* under way (LineInv); each operation is a phase in which the list, its   *)
(* copy and the module stand in a certain relation (PhaseInv).             *)
(***************************************************************************)
EXTENDS Fingerprint, FiniteSetTheorems, TLAPS

USE DEF ram, line, bounds

-----------------------------------------------------------------------------
(* Frames                                                                   *)

(* The frames of a direction of the line, and those that are about commands. *)
Seen(s) == {s[k] : k \in DOMAIN s}
Others(s) == {f \in Seen(s) : f.cmd # "RANDOM"}
Places(s) == {k \in DOMAIN s : s[k].cmd # "RANDOM"}

Names == Commands \cup {"RANDOM"}
UpFrame == [cmd : Names, arg : Fingers]
DownFrame == {f \in [cmd : Names, ack : BOOLEAN, ok : BOOLEAN, arg : Nat] :
                 f.cmd = "REG" => f.arg \in Fingers}

LEMMA OthersEmpty == Seen(<<>>) = {} /\ Others(<<>>) = {} /\ Places(<<>>) = {}
  BY DEF Seen, Others, Places

LEMMA OthersPlaces == \A s : \A f : f \in Others(s) <=> \E k \in Places(s) : f = s[k]
  BY DEF Others, Seen, Places

LEMMA TailSeen ==
  ASSUME NEW S, NEW s \in Seq(S), s # <<>>
  PROVE  /\ Head(s) \in S /\ Tail(s) \in Seq(S)
         /\ Seen(s) = {Head(s)} \cup Seen(Tail(s))
         /\ Others(Tail(s)) \subseteq Others(s)
         /\ Head(s).cmd = "RANDOM" => Others(Tail(s)) = Others(s)
         /\ Head(s).cmd # "RANDOM" => Others(s) = {Head(s)} \cup Others(Tail(s))
         /\ \A k \in Places(Tail(s)) : k + 1 \in Places(s) /\ Tail(s)[k] = s[k + 1] /\ k \in Nat /\ k > 0
         /\ Head(s).cmd # "RANDOM" => 1 \in Places(s)
  <1>1. /\ Len(s) \in Nat /\ Len(s) > 0 /\ DOMAIN s = 1..Len(s)
        /\ Tail(s) \in Seq(S) /\ Len(Tail(s)) = Len(s) - 1
        /\ DOMAIN Tail(s) = 1..(Len(s) - 1)
        /\ \A k \in 1..(Len(s) - 1) : Tail(s)[k] = s[k + 1]
        /\ Head(s) = s[1] /\ s[1] \in S
    OBVIOUS
  <1>2. Seen(s) = {Head(s)} \cup Seen(Tail(s))
    <2>1. ASSUME NEW f \in Seen(s) PROVE f \in {Head(s)} \cup Seen(Tail(s))
      <3>1. PICK k \in 1..Len(s) : f = s[k]
        BY <1>1 DEF Seen
      <3>2. CASE k = 1
        BY <1>1, <3>1, <3>2
      <3>3. CASE k # 1
        <4>1. k - 1 \in 1..(Len(s) - 1) /\ Tail(s)[k - 1] = s[k]
          BY <1>1, <3>3
        <4> QED
          BY <1>1, <3>1, <4>1 DEF Seen
      <3> QED
        BY <3>2, <3>3
    <2>2. ASSUME NEW f \in Seen(Tail(s)) PROVE f \in Seen(s)
      <3>1. PICK k \in 1..(Len(s) - 1) : f = Tail(s)[k]
        BY <1>1 DEF Seen
      <3>2. k + 1 \in DOMAIN s /\ f = s[k + 1]
        BY <1>1, <3>1
      <3> QED
        BY <3>2 DEF Seen
    <2>3. Head(s) \in Seen(s)
      BY <1>1 DEF Seen
    <2> QED
      BY <2>1, <2>2, <2>3
  <1>3. \A k \in Places(Tail(s)) : k + 1 \in Places(s) /\ Tail(s)[k] = s[k + 1] /\ k \in Nat /\ k > 0
    BY <1>1 DEF Places
  <1>4. Head(s).cmd # "RANDOM" => 1 \in Places(s)
    BY <1>1 DEF Places
  <1>5. /\ Others(Tail(s)) \subseteq Others(s)
        /\ Head(s).cmd = "RANDOM" => Others(Tail(s)) = Others(s)
        /\ Head(s).cmd # "RANDOM" => Others(s) = {Head(s)} \cup Others(Tail(s))
    BY <1>2 DEF Others
  <1> QED
    BY <1>1, <1>2, <1>3, <1>4, <1>5

LEMMA AppendParts ==
  ASSUME NEW S, NEW s \in Seq(S), NEW e \in S
  PROVE  /\ Append(s, e) \in Seq(S) /\ Len(Append(s, e)) = Len(s) + 1
         /\ \A k \in 1..Len(s) : Append(s, e)[k] = s[k]
         /\ Append(s, e)[Len(s) + 1] = e
  OBVIOUS

LEMMA AppendSeen ==
  ASSUME NEW S, NEW s \in Seq(S), NEW e \in S
  PROVE  /\ Append(s, e) \in Seq(S)
         /\ Seen(Append(s, e)) = Seen(s) \cup {e}
         /\ e.cmd = "RANDOM" => Others(Append(s, e)) = Others(s)
         /\ e.cmd # "RANDOM" => Others(Append(s, e)) = Others(s) \cup {e}
         /\ \A k \in Places(Append(s, e)) :
               \/ k \in Places(s) /\ Append(s, e)[k] = s[k]
               \/ k = Len(s) + 1 /\ e.cmd # "RANDOM" /\ Append(s, e)[k] = e
         /\ \A k \in Places(s) : k \in 1..Len(s)
  <1>1. /\ Len(s) \in Nat /\ DOMAIN s = 1..Len(s)
        /\ Append(s, e) \in Seq(S) /\ DOMAIN Append(s, e) = 1..(Len(s) + 1)
        /\ \A k \in 1..Len(s) : Append(s, e)[k] = s[k]
        /\ Append(s, e)[Len(s) + 1] = e
    OBVIOUS
  <1>2. Seen(Append(s, e)) = Seen(s) \cup {e}
    <2>1. ASSUME NEW f \in Seen(Append(s, e)) PROVE f \in Seen(s) \cup {e}
      <3>1. PICK k \in 1..(Len(s) + 1) : f = Append(s, e)[k]
        BY <1>1 DEF Seen
      <3>2. CASE k = Len(s) + 1
        BY <1>1, <3>1, <3>2
      <3>3. CASE k # Len(s) + 1
        <4>1. k \in 1..Len(s)
          BY <1>1, <3>3
        <4> QED
          BY <1>1, <3>1, <4>1 DEF Seen
      <3> QED
        BY <3>2, <3>3
    <2>2. ASSUME NEW f \in Seen(s) PROVE f \in Seen(Append(s, e))
      <3>1. PICK k \in 1..Len(s) : f = s[k]
        BY <1>1 DEF Seen
      <3>2. k \in DOMAIN Append(s, e) /\ f = Append(s, e)[k]
        BY <1>1, <3>1
      <3> QED
        BY <3>2 DEF Seen
    <2>3. e \in Seen(Append(s, e))
      <3>1. Len(s) + 1 \in DOMAIN Append(s, e) /\ e = Append(s, e)[Len(s) + 1]
        BY <1>1
      <3> QED
        BY <3>1 DEF Seen
    <2> QED
      BY <2>1, <2>2, <2>3
  <1>3. /\ e.cmd = "RANDOM" => Others(Append(s, e)) = Others(s)
        /\ e.cmd # "RANDOM" => Others(Append(s, e)) = Others(s) \cup {e}
    BY <1>2 DEF Others
  <1>4. ASSUME NEW k \in Places(Append(s, e))
        PROVE  \/ k \in Places(s) /\ Append(s, e)[k] = s[k]
               \/ k = Len(s) + 1 /\ e.cmd # "RANDOM" /\ Append(s, e)[k] = e
    <2>1. k \in 1..(Len(s) + 1) /\ Append(s, e)[k].cmd # "RANDOM"
      BY <1>1 DEF Places
    <2>2. CASE k = Len(s) + 1
      BY <1>1, <2>1, <2>2
    <2>3. CASE k # Len(s) + 1
      <3>1. k \in 1..Len(s)
        BY <1>1, <2>1, <2>3
      <3> QED
        BY <1>1, <2>1, <3>1 DEF Places
    <2> QED
      BY <2>2, <2>3
  <1>5. \A k \in Places(s) : k \in 1..Len(s)
    BY <1>1 DEF Places
  <1> QED
    BY <1>1, <1>2, <1>3, <1>4, <1>5

-----------------------------------------------------------------------------
(* One command at a time is on the line: on its way up, or answered by an   *)
(* acknowledgement before a result.                                         *)
Alone(u, d) ==
    /\ \A j, k \in Places(u) : j = k
    /\ Others(u) # {} => Others(d) = {}
    /\ \A j, k \in Places(d) :
          j < k => d[j].ack /\ ~d[k].ack /\ d[j].cmd = d[k].cmd

LEMMA NothingAlone ==
  ASSUME NEW u, NEW d, Others(u) = {}, Others(d) = {}
  PROVE  Alone(u, d)
  <1>1. Places(u) = {} /\ Places(d) = {}
    BY DEF Places, Others, Seen
  <1> QED
    BY <1>1 DEF Alone

LEMMA TailAlone ==
  ASSUME NEW S, NEW T, NEW u \in Seq(S), NEW d \in Seq(T), Alone(u, d)
  PROVE  /\ u # <<>> => Alone(Tail(u), d)
         /\ d # <<>> => Alone(u, Tail(d))
         /\ u # <<>> /\ Head(u).cmd # "RANDOM" => Others(Tail(u)) = {} /\ Others(d) = {}
         /\ d # <<>> /\ Head(d).cmd # "RANDOM" =>
               /\ Others(u) = {}
               /\ ~Head(d).ack => Others(Tail(d)) = {}
               /\ \A f \in Others(Tail(d)) : ~f.ack /\ f.cmd = Head(d).cmd
  <1>1. ASSUME u # <<>>
        PROVE  /\ Alone(Tail(u), d)
               /\ Head(u).cmd # "RANDOM" => Others(Tail(u)) = {} /\ Others(d) = {}
    <2>1. \A j, k \in Places(Tail(u)) : j = k
      <3> TAKE j, k \in Places(Tail(u))
      <3>1. j + 1 \in Places(u) /\ k + 1 \in Places(u) /\ j \in Nat /\ k \in Nat
        BY <1>1, TailSeen
      <3>2. j + 1 = k + 1
        BY <3>1 DEF Alone
      <3> QED
        BY <3>1, <3>2
    <2>2. Others(Tail(u)) \subseteq Others(u)
      BY <1>1, TailSeen
    <2>3. ASSUME Head(u).cmd # "RANDOM" PROVE Others(Tail(u)) = {} /\ Others(d) = {}
      <3>1. ASSUME NEW f \in Others(Tail(u)) PROVE FALSE
        <4>1. PICK k \in Places(Tail(u)) : TRUE
          BY <3>1, OthersPlaces
        <4>2. k + 1 \in Places(u) /\ 1 \in Places(u) /\ k \in Nat /\ k > 0
          BY <1>1, <2>3, <4>1, TailSeen
        <4>3. k + 1 = 1
          BY <4>2 DEF Alone
        <4> QED
          BY <4>2, <4>3
      <3>2. Others(u) # {}
        BY <1>1, <2>3, TailSeen
      <3> QED
        BY <3>1, <3>2 DEF Alone
    <2> QED
      BY <2>1, <2>2, <2>3 DEF Alone
  <1>2. ASSUME d # <<>>
        PROVE  /\ Alone(u, Tail(d))
               /\ Head(d).cmd # "RANDOM" =>
                     /\ Others(u) = {}
                     /\ ~Head(d).ack => Others(Tail(d)) = {}
                     /\ \A f \in Others(Tail(d)) : ~f.ack /\ f.cmd = Head(d).cmd
    <2>1. \A j, k \in Places(Tail(d)) :
             j < k => Tail(d)[j].ack /\ ~Tail(d)[k].ack /\ Tail(d)[j].cmd = Tail(d)[k].cmd
      <3> TAKE j, k \in Places(Tail(d))
      <3> HAVE j < k
      <3>1. /\ j + 1 \in Places(d) /\ k + 1 \in Places(d) /\ j \in Nat /\ k \in Nat
            /\ Tail(d)[j] = d[j + 1] /\ Tail(d)[k] = d[k + 1]
        BY <1>2, TailSeen
      <3>2. j + 1 < k + 1
        BY <3>1
      <3>3. d[j + 1].ack /\ ~d[k + 1].ack /\ d[j + 1].cmd = d[k + 1].cmd
        BY <3>1, <3>2 DEF Alone
      <3> QED
        BY <3>1, <3>3
    <2>2. Others(Tail(d)) \subseteq Others(d)
      BY <1>2, TailSeen
    <2>3. ASSUME Head(d).cmd # "RANDOM"
          PROVE  /\ Others(u) = {}
                 /\ ~Head(d).ack => Others(Tail(d)) = {}
                 /\ \A f \in Others(Tail(d)) : ~f.ack /\ f.cmd = Head(d).cmd
      <3>0. d[1] = Head(d)
        BY <1>2
      <3>1. Others(d) # {} /\ 1 \in Places(d) /\ d[1] = Head(d)
        BY <1>2, <2>3, <3>0, TailSeen
      <3>2. ASSUME NEW f \in Others(Tail(d))
            PROVE  Head(d).ack /\ ~f.ack /\ f.cmd = Head(d).cmd
        <4>1. PICK k \in Places(Tail(d)) : f = Tail(d)[k]
          BY <3>2, OthersPlaces
        <4>2. k + 1 \in Places(d) /\ Tail(d)[k] = d[k + 1] /\ k \in Nat /\ k > 0
          BY <1>2, <4>1, TailSeen
        <4>3. 1 < k + 1
          BY <4>2
        <4>4. d[1].ack /\ ~d[k + 1].ack /\ d[1].cmd = d[k + 1].cmd
          BY <3>1, <4>2, <4>3 DEF Alone
        <4> QED
          BY <3>1, <4>1, <4>2, <4>4
      <3> QED
        BY <3>1, <3>2 DEF Alone
    <2> QED
      BY <2>1, <2>2, <2>3 DEF Alone
  <1> QED
    BY <1>1, <1>2

LEMMA AppendAlone ==
  ASSUME NEW S, NEW T, NEW u \in Seq(S), NEW d \in Seq(T), NEW e, Alone(u, d)
  PROVE  /\ e \in S /\ e.cmd = "RANDOM" => Alone(Append(u, e), d)
         /\ e \in T /\ e.cmd = "RANDOM" => Alone(u, Append(d, e))
         /\ e \in S /\ Others(u) = {} /\ Others(d) = {} => Alone(Append(u, e), d)
         /\ e \in T /\ Others(u) = {} /\ Others(d) = {} => Alone(u, Append(d, e))
         /\ e \in T /\ Others(u) = {} /\ ~e.ack
            /\ (\A f \in Others(d) : f.ack /\ f.cmd = e.cmd)
            /\ (\A j, k \in Places(d) : j = k) => Alone(u, Append(d, e))
  <1>1. ASSUME e \in S, e.cmd = "RANDOM" PROVE Alone(Append(u, e), d)
    BY <1>1, AppendSeen DEF Alone
  <1>2. ASSUME e \in T, e.cmd = "RANDOM" PROVE Alone(u, Append(d, e))
    <2>1. Others(Append(d, e)) = Others(d)
      BY <1>2, AppendSeen
    <2>2. \A k \in Places(Append(d, e)) : k \in Places(d) /\ Append(d, e)[k] = d[k]
      BY <1>2, AppendSeen
    <2> QED
      BY <2>1, <2>2 DEF Alone
  <1>3. ASSUME e \in S, Others(u) = {}, Others(d) = {} PROVE Alone(Append(u, e), d)
    <2>1. Places(u) = {}
      BY <1>3, OthersPlaces
    <2>2. \A k \in Places(Append(u, e)) : k = Len(u) + 1
      BY <1>3, <2>1, AppendSeen
    <2> QED
      BY <1>3, <2>2 DEF Alone
  <1>4. ASSUME e \in T, Others(u) = {}, Others(d) = {} PROVE Alone(u, Append(d, e))
    <2>1. Places(d) = {}
      BY <1>4, OthersPlaces
    <2>2. \A k \in Places(Append(d, e)) : k = Len(d) + 1
      BY <1>4, <2>1, AppendSeen
    <2>3. Len(d) + 1 \in Nat
      OBVIOUS
    <2>4. \A j, k \in Places(Append(d, e)) : ~(j < k)
      BY <2>2, <2>3
    <2> QED
      BY <1>4, <2>4 DEF Alone
  <1>5. ASSUME e \in T, Others(u) = {}, ~e.ack,
               \A f \in Others(d) : f.ack /\ f.cmd = e.cmd,
               \A j, k \in Places(d) : j = k
        PROVE  Alone(u, Append(d, e))
    <2>1. ASSUME NEW j \in Places(Append(d, e)), NEW k \in Places(Append(d, e)), j < k
          PROVE  /\ Append(d, e)[j].ack /\ ~Append(d, e)[k].ack
                 /\ Append(d, e)[j].cmd = Append(d, e)[k].cmd
      <3>1. /\ (j \in Places(d) /\ Append(d, e)[j] = d[j]) \/ (j = Len(d) + 1 /\ Append(d, e)[j] = e)
            /\ (k \in Places(d) /\ Append(d, e)[k] = d[k]) \/ (k = Len(d) + 1 /\ Append(d, e)[k] = e)
            /\ \A i \in Places(d) : i \in 1..Len(d)
        BY <1>5, AppendSeen
      <3>2. Len(d) \in Nat
        OBVIOUS
      <3>3. j \in Places(d) /\ Append(d, e)[j] = d[j]
        BY <2>1, <3>1, <3>2
      <3>4. Append(d, e)[k] = e
        <4>1. CASE k \in Places(d)
          <5>1. j = k
            BY <1>5, <3>3, <4>1
          <5> QED
            BY <2>1, <3>1, <3>2, <3>3, <5>1
        <4>2. CASE k \notin Places(d)
          BY <3>1, <4>2
        <4> QED
          BY <4>1, <4>2
      <3>5. d[j] \in Others(d)
        BY <3>3, OthersPlaces
      <3> QED
        BY <1>5, <3>3, <3>4, <3>5
    <2> QED
      BY <1>5, <2>1 DEF Alone
  <1> QED
    BY <1>1, <1>2, <1>3, <1>4, <1>5

-----------------------------------------------------------------------------
(* The queue of counters                                                    *)

LEMMA RemoveType ==
  ASSUME NEW S, NEW s \in Seq(S), NEW c
  PROVE  Remove(s, c) \in Seq(S)
  <1>1. ASSUME NEW k \in DOMAIN s
        PROVE  SubSeq(s, 1, k - 1) \o SubSeq(s, k + 1, Len(s)) \in Seq(S)
    <2>1. k \in 1..Len(s) /\ Len(s) \in Nat
      OBVIOUS
    <2>2. SubSeq(s, 1, k - 1) \in Seq(S)
      BY <2>1
    <2>3. SubSeq(s, k + 1, Len(s)) \in Seq(S)
      BY <2>1
    <2> QED
      BY <2>2, <2>3
  <1>2. CASE \E k \in DOMAIN s : s[k] = c
    <2> DEFINE k == CHOOSE k \in DOMAIN s : s[k] = c
    <2>1. k \in DOMAIN s
      BY <1>2
    <2>2. Remove(s, c) = SubSeq(s, 1, k - 1) \o SubSeq(s, k + 1, Len(s))
      BY <1>2 DEF Remove
    <2> HIDE DEF k
    <2> QED
      BY <1>1, <2>1, <2>2
  <1>3. CASE ~\E k \in DOMAIN s : s[k] = c
    BY <1>3 DEF Remove
  <1> QED
    BY <1>2, <1>3

(* What becomes of the queues there are. *)
LEMMA RemoveEmpty == \A c : Remove(<<>>, c) = <<>>
  BY DEF Remove

LEMMA RemoveOne == \A c, d : Remove(<<d>>, c) = IF d = c THEN <<>> ELSE <<d>>
  <1> TAKE c, d
  <1>1. DOMAIN <<d>> = {1} /\ <<d>>[1] = d /\ Len(<<d>>) = 1
    OBVIOUS
  <1>2. CASE d = c
    <2>1. (CHOOSE k \in DOMAIN <<d>> : <<d>>[k] = c) = 1
      BY <1>1, <1>2
    <2>2. Remove(<<d>>, c) = SubSeq(<<d>>, 1, 1 - 1) \o SubSeq(<<d>>, 1 + 1, Len(<<d>>))
      BY <1>1, <1>2, <2>1 DEF Remove
    <2>3. SubSeq(<<d>>, 1, 0) = <<>> /\ SubSeq(<<d>>, 2, 1) = <<>>
      OBVIOUS
    <2> QED
      BY <1>1, <1>2, <2>2, <2>3
  <1>3. CASE d # c
    BY <1>1, <1>3 DEF Remove
  <1> QED
    BY <1>2, <1>3

LEMMA PairParts ==
  ASSUME NEW d, NEW e
  PROVE  /\ SubSeq(<<d, e>>, 1, 0) = <<>> /\ SubSeq(<<d, e>>, 2, 2) = <<e>>
         /\ SubSeq(<<d, e>>, 1, 1) = <<d>> /\ SubSeq(<<d, e>>, 3, 2) = <<>>
  <1> DEFINE s == <<d, e>>
  <1>1. s \in Seq({d, e}) /\ Len(s) = 2 /\ s[1] = d /\ s[2] = e
    OBVIOUS
  <1> HIDE DEF s
  <1>2. SubSeq(s, 1, 0) = <<>> /\ SubSeq(s, 3, 2) = <<>>
    BY <1>1
  <1>3. SubSeq(s, 2, 2) \in Seq({d, e}) /\ Len(SubSeq(s, 2, 2)) = 1 /\ SubSeq(s, 2, 2)[1] = e
    BY <1>1
  <1>4. SubSeq(s, 1, 1) \in Seq({d, e}) /\ Len(SubSeq(s, 1, 1)) = 1 /\ SubSeq(s, 1, 1)[1] = d
    BY <1>1
  <1>5. \A t, u : t \in Seq({d, e}) /\ Len(t) = 1 /\ t[1] = u => t = <<u>>
    OBVIOUS
  <1> QED
    BY <1>2, <1>3, <1>4, <1>5 DEF s

LEMMA RemoveTwo ==
  ASSUME NEW d, NEW e, NEW c, d # e
  PROVE  Remove(<<d, e>>, c) = IF c = d THEN <<e>> ELSE IF c = e THEN <<d>> ELSE <<d, e>>
  <1>1. DOMAIN <<d, e>> = {1, 2} /\ <<d, e>>[1] = d /\ <<d, e>>[2] = e /\ Len(<<d, e>>) = 2
    OBVIOUS
  <1>2. CASE c = d
    <2>1. (CHOOSE k \in DOMAIN <<d, e>> : <<d, e>>[k] = c) = 1
      BY <1>1, <1>2
    <2>2. Remove(<<d, e>>, c) = SubSeq(<<d, e>>, 1, 1 - 1) \o SubSeq(<<d, e>>, 1 + 1, Len(<<d, e>>))
      BY <1>1, <1>2, <2>1 DEF Remove
    <2>3. SubSeq(<<d, e>>, 1, 0) = <<>> /\ SubSeq(<<d, e>>, 2, 2) = <<e>>
      BY PairParts
    <2> QED
      BY <1>1, <1>2, <2>2, <2>3
  <1>3. CASE c = e
    <2>1. (CHOOSE k \in DOMAIN <<d, e>> : <<d, e>>[k] = c) = 2
      BY <1>1, <1>3
    <2>2. Remove(<<d, e>>, c) = SubSeq(<<d, e>>, 1, 2 - 1) \o SubSeq(<<d, e>>, 2 + 1, Len(<<d, e>>))
      BY <1>1, <1>3, <2>1 DEF Remove
    <2>3. SubSeq(<<d, e>>, 1, 1) = <<d>> /\ SubSeq(<<d, e>>, 3, 2) = <<>>
      BY PairParts
    <2> QED
      BY <1>1, <1>3, <2>2, <2>3
  <1>4. CASE c # d /\ c # e
    BY <1>1, <1>4 DEF Remove
  <1> QED
    BY <1>2, <1>3, <1>4

(* A counter that is started is in the queue. *)
LEMMA StartedSeen ==
  ASSUME awaiting \in Seq(Commands), NEW c \in Commands
  PROVE  Started(c) \in Seq(Commands) /\ c \in Seen(Started(c))
  <1>1. Without(c) \in Seq(Commands)
    BY RemoveType DEF Without
  <1> QED
    BY <1>1, AppendSeen DEF Started

-----------------------------------------------------------------------------
(* Types                                                                    *)

Flags ==
    /\ delSave \in BOOLEAN /\ checked \in BOOLEAN
    /\ crossed \in BOOLEAN /\ missing \in BOOLEAN

List == [id : SUBSET Fingers, num : Int]

Types ==
    /\ slot \in Commands \cup {NoCmd} /\ index \in Fingers
    /\ awaiting \in Seq(Commands)
    /\ up \in Seq(UpFrame) /\ down \in Seq(DownFrame)
    /\ manager \in List /\ saved \in List
    /\ ui \in {"manager", "adding", "keyboard", "limit"}
    /\ module \in SUBSET Fingers /\ doing \in Fingers \cup {None}
    /\ Flags

LEMMA FingersFinite ==
  /\ IsFiniteSet(Fingers)
  /\ \A s \in SUBSET Fingers : IsFiniteSet(s) /\ Cardinality(s) \in Nat
  <1>1. IsFiniteSet(Fingers)
    BY 0 \in Int, 2 \in Int, FS_Interval, Zenon DEF Fingers
  <1> QED
    BY <1>1, FS_Subset, FS_CardinalityType

LEMMA HoldingType == Empty \in List /\ \A s \in SUBSET Fingers : Holding(s) \in List
  BY FingersFinite DEF Holding, Empty, List

LEMMA RandomFrame ==
  /\ Random \in UpFrame /\ Random.cmd = "RANDOM"
  /\ \A c \in Commands, i \in Fingers :
        Command(c, i) \in UpFrame /\ Command(c, i).cmd = c /\ Command(c, i).arg = i
  /\ "RANDOM" \notin Commands /\ NoCmd \notin Commands
  <1>1. 0 \in Fingers
    BY DEF Fingers
  <1> QED
    BY <1>1 DEF Random, Command, UpFrame, Names, Commands, Timed, NoCmd

LEMMA AnswerFrame ==
  ASSUME NEW c \in Names, NEW i \in Fingers, module \in SUBSET Fingers
  PROVE  /\ Answers(c, i) \in Seq(DownFrame)
         /\ \/ \E r \in DownFrame : Answers(c, i) = <<r>> /\ r.cmd = c
                                    /\ (r.ack \/ r.cmd = "RANDOM")
            \/ \E a, r \in DownFrame : /\ Answers(c, i) = <<a, r>> /\ a.cmd = c /\ r.cmd = c
                                       /\ a.ack /\ ~r.ack /\ c # "RANDOM"
  <1>1. ASSUME NEW ok \in BOOLEAN, NEW n \in Nat, c # "REG" PROVE Result(c, ok, n) \in DownFrame
    BY <1>1 DEF Result, DownFrame
  <1>2. Ack(c) \in DownFrame /\ Ack(c).cmd = c /\ Ack(c).ack
    BY DEF Ack, DownFrame, Fingers
  <1>3. \A ok, n : Result(c, ok, n).cmd = c /\ ~Result(c, ok, n).ack
    BY DEF Result
  <1>4. CASE c = "RANDOM"
    <2>1. Answers(c, i) = <<Result(c, TRUE, 0)>>
      BY <1>4 DEF Answers
    <2>2. Result(c, TRUE, 0) \in DownFrame
      BY <1>1, <1>4
    <2>3. PICK f \in DownFrame : f = Result(c, TRUE, 0)
      BY <2>2
    <2>4. f.cmd = c /\ Answers(c, i) = <<f>>
      BY <1>3, <2>1, <2>3
    <2>5. \E r \in DownFrame : Answers(c, i) = <<r>> /\ r.cmd = c /\ (r.ack \/ r.cmd = "RANDOM")
      BY <1>4, <2>4
    <2>6. Answers(c, i) \in Seq(DownFrame)
      BY <2>4
    <2> QED
      BY <2>5, <2>6
  <1>5. CASE c \in {"REG", "CANCEL"}
    <2>1. Answers(c, i) = <<Ack(c)>>
      BY <1>5 DEF Answers
    <2> QED
      BY <1>2, <2>1
  <1>6. ASSUME c \notin {"RANDOM", "REG", "CANCEL"}
        PROVE  \E ok \in BOOLEAN, n \in Nat : Answers(c, i) = <<Ack(c), Result(c, ok, n)>>
    <2>1. Cardinality(module) \in Nat /\ 0 \in Nat
      BY FingersFinite
    <2>2. CASE c = "DELETE_SINGLE"
      <3>1. Answers(c, i) = <<Ack(c), Result(c, i \in module, 0)>>
        BY <2>2 DEF Answers
      <3>2. (i \in module) \in BOOLEAN
        OBVIOUS
      <3> QED
        BY <2>1, <3>1, <3>2, Zenon
    <2>3. CASE c = "GET_REG_NUM"
      <3>1. Answers(c, i) = <<Ack(c), Result(c, TRUE, Cardinality(module))>>
        BY <2>3 DEF Answers
      <3> QED
        BY <2>1, <3>1
    <2>4. CASE c \notin {"DELETE_SINGLE", "GET_REG_NUM"}
      <3>1. Answers(c, i) = <<Ack(c), Result(c, TRUE, 0)>>
        BY <1>6, <2>4 DEF Answers
      <3> QED
        BY <2>1, <3>1
    <2> QED
      BY <2>2, <2>3, <2>4
  <1>7. CASE c \notin {"RANDOM", "REG", "CANCEL"}
    <2>1. PICK ok \in BOOLEAN, n \in Nat : Answers(c, i) = <<Ack(c), Result(c, ok, n)>>
      BY <1>6, <1>7
    <2>2. Result(c, ok, n) \in DownFrame
      BY <1>1, <1>7
    <2> QED
      BY <1>2, <1>3, <1>7, <2>1, <2>2
  <1> QED
    BY <1>4, <1>5, <1>7

-----------------------------------------------------------------------------
(* The line                                                                 *)

(* While the user waits for the module, a command that waits for its random *)
(* number has the line to itself and its counter runs; while a finger is    *)
(* added nothing else is under way.                                         *)
LineInv ==
    ~crossed =>
        /\ Alone(up, down)
        /\ slot # NoCmd => Others(up) = {} /\ Others(down) = {}
        /\ slot \in Timed => slot \in Seen(awaiting)
        /\ ui = "adding" =>
              /\ slot \in {"REG", NoCmd} /\ awaiting \in {<<>>, <<"REG">>}
              /\ \A f \in Others(up) \cup Others(down) : f.cmd = "REG"

(* A frame of the module comes: what else is on the line. *)
LEMMA ArrivesEffect ==
  ASSUME Types, NEW c \in Names, NEW ack \in BOOLEAN, Arrives(c, ack)
  PROVE  /\ down # <<>> /\ Head(down) \in DownFrame /\ Head(down) \in Seen(down)
         /\ Head(down).cmd = c /\ Head(down).ack = ack
         /\ down' = Tail(down) /\ down' \in Seq(DownFrame)
         /\ Others(down') \subseteq Others(down)
         /\ c = "RANDOM" => Others(down') = Others(down)
         /\ c # "RANDOM" => Others(down) = {Head(down)} \cup Others(down')
         /\ module' = module /\ doing' = doing
  BY TailSeen DEF Arrives, Types

LEMMA ArrivesAlone ==
  ASSUME Types, LineInv, ~crossed, NEW c \in Names, NEW ack \in BOOLEAN, Arrives(c, ack)
  PROVE  /\ Alone(up, down')
         /\ c # "RANDOM" =>
               /\ slot = NoCmd /\ Others(up) = {}
               /\ ~ack => Others(down') = {}
               /\ \A f \in Others(down') : ~f.ack /\ f.cmd = c
  <1>1. /\ down # <<>> /\ Head(down).cmd = c /\ Head(down).ack = ack /\ down' = Tail(down)
        /\ c # "RANDOM" => Others(down) = {Head(down)} \cup Others(down')
    BY ArrivesEffect
  <1>2. Alone(up, down) /\ up \in Seq(UpFrame) /\ down \in Seq(DownFrame)
    BY DEF LineInv, Types
  <1>3. c # "RANDOM" => Others(down) # {}
    BY <1>1
  <1> QED
    BY <1>1, <1>2, <1>3, TailAlone DEF LineInv

(* The line is at rest. *)
LEMMA QuietEffect ==
  ASSUME Quiet
  PROVE  /\ up = <<>> /\ down = <<>> /\ awaiting = <<>>
         /\ Others(up) = {} /\ Others(down) = {} /\ Seen(awaiting) = {}
  BY OthersEmpty DEF Quiet

(* A command is asked for: its random number is on the way. *)
LEMMA AskEffect ==
  ASSUME Types, NEW c \in Commands, NEW i \in Fingers, NEW queue, Ask(c, i, queue)
  PROVE  /\ slot' = c /\ index' = i /\ awaiting' = queue
         /\ up' = Append(up, Random) /\ up' \in Seq(UpFrame)
         /\ Others(up') = Others(up) /\ Random \in Seen(up')
  BY RandomFrame, AppendSeen DEF Ask, Types

LEMMA AskTypes ==
  ASSUME Types, NEW c \in Commands, NEW i \in Fingers, NEW queue \in Seq(Commands), Ask(c, i, queue)
  PROVE  /\ slot' \in Commands \cup {NoCmd} /\ index' \in Fingers
         /\ awaiting' \in Seq(Commands) /\ up' \in Seq(UpFrame)
  BY AskEffect

-----------------------------------------------------------------------------
(* Types and the line: the user                                             *)

(* Asking when the line is at rest gives the command the line. *)
LEMMA AskLine ==
  ASSUME Types, NEW c \in Commands, NEW i \in Fingers, NEW queue, Ask(c, i, queue),
         down' = down, ~crossed' => Quiet,
         c \in Timed => c \in Seen(queue),
         ui' = "adding" => c = "REG" /\ queue = <<"REG">>
  PROVE  LineInv'
  <1> SUFFICES ASSUME ~crossed' PROVE /\ Alone(up', down')
                                      /\ Others(up') = {} /\ Others(down') = {}
    BY AskEffect DEF LineInv
  <1>1. Others(up') = {} /\ Others(down') = {}
    BY AskEffect, QuietEffect
  <1> QED
    BY <1>1, NothingAlone

LEMMA UserEffect ==
  ASSUME Types, NEW page, User(page)
  PROVE  /\ UNCHANGED <<saved, manager, chip, down, module, doing, checked, missing>>
         /\ ui \in page /\ (~crossed' => ~crossed /\ Quiet) /\ crossed' \in BOOLEAN
  BY DEF User, Types, Flags, Quiet

LEMMA StartedQuiet == Quiet => \A c : Started(c) = <<c>>
  <1>1. \A c : Append(<<>>, c) = <<c>>
    OBVIOUS
  <1>2. Quiet => \A c : Without(c) = <<>>
    BY RemoveEmpty DEF Without, Quiet
  <1> QED
    BY <1>1, <1>2 DEF Started

LEMMA OneSeen == \A c : Seen(<<c>>) = {c}
  BY DEF Seen

LEMMA AddLine == ASSUME Types, LineInv, Add PROVE Types' /\ LineInv'
  <1>1. PICK i \in Fingers : Ask("REG", i, Started("REG"))
    BY DEF Add
  <1>2. /\ "REG" \in Commands /\ User({"manager", "limit"}) /\ ui' = "adding" /\ delSave' = delSave
    BY DEF Add, Commands, Timed
  <1>3. Started("REG") \in Seq(Commands) /\ "REG" \in Seen(Started("REG"))
    BY <1>2, StartedSeen DEF Types
  <1>4. Types'
    BY <1>1, <1>2, <1>3, AskTypes, UserEffect DEF Types, Flags
  <1>5. down' = down /\ (~crossed' => Quiet)
    BY <1>2, UserEffect
  <1>6. LineInv'
    <2>1. ~crossed' => Started("REG") = <<"REG">>
      BY <1>5, StartedQuiet
    <2> SUFFICES ASSUME ~crossed' PROVE LineInv'
      BY DEF LineInv
    <2> QED
      BY <1>1, <1>2, <1>3, <1>5, <2>1, AskLine
  <1> QED
    BY <1>4, <1>6

LEMMA CancelLine == ASSUME Types, LineInv, Cancel PROVE Types' /\ LineInv'
  <1>1. /\ "CANCEL" \in Commands \ Timed /\ User({"adding"}) /\ ui' = "manager"
        /\ Ask("CANCEL", index, awaiting) /\ delSave' = delSave
    BY DEF Cancel, Commands, Timed
  <1>2. Types'
    BY <1>1, AskTypes, UserEffect DEF Types, Flags
  <1>3. LineInv'
    <2>1. down' = down /\ (~crossed' => Quiet) /\ index \in Fingers
      BY <1>1, UserEffect DEF Types
    <2> QED
      BY <1>1, <2>1, AskLine
  <1> QED
    BY <1>2, <1>3

LEMMA LeaveLine == ASSUME Types, LineInv, Leave PROVE Types' /\ LineInv'
  <1>1. Types'
    BY DEF Leave, Types, Flags
  <1>2. LineInv'
    BY DEF Leave, LineInv
  <1> QED
    BY <1>1, <1>2

LEMMA DeleteLine ==
  ASSUME Types, LineInv, CancelRegister \/ \E i \in Fingers : Delete(i)
  PROVE  Types' /\ LineInv'
  <1>1. PICK i \in Fingers : Ask("DELETE_SINGLE", i, Started("DELETE_SINGLE"))
    BY DEF CancelRegister, Delete, Types
  <1>2. /\ "DELETE_SINGLE" \in Commands /\ delSave' \in BOOLEAN
        /\ ui' \in {"manager", "keyboard"} /\ \E page : User(page)
    BY DEF CancelRegister, Delete, User, Commands, Timed, Types, Flags
  <1>3. /\ Started("DELETE_SINGLE") \in Seq(Commands)
        /\ "DELETE_SINGLE" \in Seen(Started("DELETE_SINGLE"))
    BY <1>2, StartedSeen DEF Types
  <1>4. Types'
    BY <1>1, <1>2, <1>3, AskTypes, UserEffect DEF Types, Flags
  <1>5. LineInv'
    <2>1. down' = down /\ (~crossed' => Quiet)
      BY <1>2, UserEffect
    <2> QED
      BY <1>1, <1>2, <1>3, <2>1, AskLine
  <1> QED
    BY <1>4, <1>5

LEMMA PasswordLine == ASSUME Types, LineInv, PasswordRight PROVE Types' /\ LineInv'
  <1>1. manager' \in List /\ saved' \in List
    BY DEF PasswordRight, WithFinger, Written, Types, List
  <1>2. Types'
    BY <1>1 DEF PasswordRight, Types, Flags, Quiet
  <1>3. LineInv'
    BY DEF PasswordRight, LineInv, Types, Flags
  <1> QED
    BY <1>2, <1>3

-----------------------------------------------------------------------------
(* Types and the line: the answers                                          *)

LEMMA RandomLine == ASSUME Types, LineInv, RandomRecv PROVE Types' /\ LineInv'
  <1>1. Arrives("RANDOM", FALSE) /\ "RANDOM" \in Names /\ FALSE \in BOOLEAN
    BY DEF RandomRecv, Names
  <1>2. /\ down' \in Seq(DownFrame) /\ Others(down') = Others(down)
        /\ module' = module /\ doing' = doing
    BY <1>1, ArrivesEffect
  <1>3. /\ slot' = NoCmd
        /\ UNCHANGED <<index, delSave, manager, chip, saved, ui, checked, crossed, missing>>
    BY DEF RandomRecv
  <1>4. CASE slot = NoCmd
    <2>1. UNCHANGED <<up, awaiting>>
      BY <1>4 DEF RandomRecv
    <2>2. ~crossed => Alone(up, down')
      BY <1>1, ArrivesAlone
    <2>3. Types'
      BY <1>2, <1>3, <2>1 DEF Types, Flags
    <2>4. NoCmd \notin Timed
      BY DEF NoCmd, Timed
    <2> QED
      BY <1>2, <1>3, <2>1, <2>2, <2>3, <2>4 DEF LineInv
  <1>5. CASE slot # NoCmd
    <2>1. up' = Append(up, Command(slot, index)) /\ awaiting' = Started(slot)
      BY <1>5 DEF RandomRecv
    <2>2. /\ slot \in Commands /\ index \in Fingers /\ awaiting \in Seq(Commands)
          /\ up \in Seq(UpFrame)
      BY <1>5 DEF Types
    <2>3. /\ Command(slot, index) \in UpFrame /\ Command(slot, index).cmd = slot
          /\ slot # "RANDOM"
      BY <2>2, RandomFrame
    <2>4. up' \in Seq(UpFrame) /\ Others(up') = Others(up) \cup {Command(slot, index)}
      BY <2>1, <2>2, <2>3, AppendSeen
    <2>5. awaiting' \in Seq(Commands)
      BY <2>1, <2>2, StartedSeen
    <2>6. Types'
      BY <1>2, <1>3, <2>4, <2>5 DEF Types, Flags
    <2>7. LineInv'
      <3> SUFFICES ASSUME ~crossed PROVE LineInv'
        BY <1>3 DEF LineInv
      <3>1. Others(up) = {} /\ Others(down') = {}
        BY <1>2, <1>5 DEF LineInv
      <3>2. Alone(up', down')
        BY <1>2, <2>1, <2>2, <2>3, <3>1, NothingAlone, AppendAlone
      <3>3. NoCmd \notin Timed
        BY DEF NoCmd, Timed
      <3>4. ASSUME ui = "adding"
            PROVE  slot = "REG" /\ awaiting' = <<"REG">>
        <4>1. slot = "REG" /\ awaiting \in {<<>>, <<"REG">>}
          BY <1>5, <3>4 DEF LineInv
        <4>2. Without("REG") = <<>>
          BY <4>1, RemoveEmpty, RemoveOne DEF Without
        <4>3. Append(<<>>, "REG") = <<"REG">>
          OBVIOUS
        <4> QED
          BY <2>1, <4>1, <4>2, <4>3 DEF Started
      <3>5. \A f \in Others(up') \cup Others(down') : f.cmd = slot
        BY <2>3, <2>4, <3>1
      <3> QED
        BY <1>3, <3>2, <3>3, <3>4, <3>5 DEF LineInv
    <2> QED
      BY <2>6, <2>7
  <1> QED
    BY <1>4, <1>5

LEMMA AcknowledgedLine == ASSUME Types, LineInv, Acknowledged PROVE Types' /\ LineInv'
  <1>1. PICK c \in Commands : Arrives(c, TRUE) /\ awaiting' = Without(c)
    BY DEF Acknowledged
  <1>2. c \in Names /\ c # "RANDOM" /\ TRUE \in BOOLEAN
    BY RandomFrame DEF Names
  <1>3. /\ down' \in Seq(DownFrame) /\ Others(down') \subseteq Others(down)
        /\ module' = module /\ doing' = doing
    BY <1>1, <1>2, ArrivesEffect
  <1>4. UNCHANGED <<slot, index, delSave, manager, chip, saved, ui, up, checked, crossed, missing>>
    BY DEF Acknowledged
  <1>5. awaiting' \in Seq(Commands)
    BY <1>1, RemoveType DEF Types, Without
  <1>6. Types'
    BY <1>3, <1>4, <1>5 DEF Types, Flags
  <1>7. LineInv'
    <2> SUFFICES ASSUME ~crossed PROVE LineInv'
      BY <1>4 DEF LineInv
    <2>1. Alone(up, down') /\ slot = NoCmd
      BY <1>1, <1>2, ArrivesAlone
    <2>2. NoCmd \notin Timed
      BY DEF NoCmd, Timed
    <2>3. ui = "adding" => awaiting' \in {<<>>, <<"REG">>}
      BY <1>1, RemoveEmpty, RemoveOne DEF LineInv, Without
    <2> QED
      BY <1>3, <1>4, <2>1, <2>2, <2>3 DEF LineInv
  <1> QED
    BY <1>6, <1>7

LEMMA RegLine == ASSUME Types, LineInv, RegRecv PROVE Types' /\ LineInv'
  <1>1. Arrives("REG", FALSE) /\ "REG" \in Names /\ FALSE \in BOOLEAN /\ "REG" # "RANDOM"
    BY DEF RegRecv, Names, Commands, Timed
  <1>2. /\ down' \in Seq(DownFrame) /\ Others(down') \subseteq Others(down)
        /\ module' = module /\ doing' = doing
        /\ Head(down) \in DownFrame /\ Head(down).cmd = "REG"
    BY <1>1, ArrivesEffect
  <1>3. UNCHANGED <<delSave, manager, chip, saved, checked, crossed, missing>>
    BY DEF RegRecv
  <1>4. ~crossed => /\ Alone(up, down') /\ slot = NoCmd
                    /\ Others(up) = {} /\ Others(down') = {}
    BY <1>1, ArrivesAlone
  <1>5. NoCmd \notin Timed /\ "CANCEL" \notin Timed /\ "CANCEL" \in Commands
    BY DEF NoCmd, Timed, Commands
  <1>6. ui' \in {"manager", "keyboard", "limit"} \/ (ui' = ui /\ ui # "adding")
    BY DEF RegRecv, Types
  <1>7. CASE index' = Head(down).arg /\ UNCHANGED <<slot, awaiting, up>>
    <2>1. index' \in Fingers
      BY <1>2, <1>7 DEF DownFrame
    <2>2. Types'
      BY <1>2, <1>3, <1>6, <1>7, <2>1 DEF Types, Flags
    <2>3. LineInv'
      BY <1>3, <1>4, <1>5, <1>6, <1>7 DEF LineInv
    <2> QED
      BY <2>2, <2>3
  <1>8. CASE Ask("CANCEL", index, awaiting)
    <2>1. index \in Fingers /\ awaiting \in Seq(Commands) /\ up \in Seq(UpFrame)
      BY DEF Types
    <2>2. Types'
      BY <1>2, <1>3, <1>5, <1>6, <1>8, <2>1, AskTypes DEF Types, Flags
    <2>3. slot' = "CANCEL" /\ up' = Append(up, Random) /\ Others(up') = Others(up)
      BY <1>5, <1>8, <2>1, AskEffect
    <2>4. ~crossed => Alone(up', down')
      BY <1>2, <1>4, <2>1, <2>3, RandomFrame, AppendAlone
    <2>5. LineInv'
      BY <1>3, <1>4, <1>5, <1>6, <2>3, <2>4 DEF LineInv
    <2> QED
      BY <2>2, <2>5
  <1> QED
    BY <1>7, <1>8 DEF RegRecv

LEMMA DeletedLine ==
  ASSUME Types, LineInv, DeleteRecv \/ DeleteAllRecv \/ GetChipId
  PROVE  Types' /\ LineInv'
  <1>1. PICK c \in Names \ {"RANDOM"} : Arrives(c, FALSE)
    BY DEF DeleteRecv, DeleteAllRecv, GetChipId, Names, Commands, Timed
  <1>2. /\ down' \in Seq(DownFrame) /\ Others(down') \subseteq Others(down)
        /\ module' = module /\ doing' = doing
    BY <1>1, ArrivesEffect
  <1>3. /\ UNCHANGED <<slot, index, awaiting, ui, up, checked, crossed, missing>>
        /\ delSave' \in BOOLEAN
    BY DEF DeleteRecv, DeleteAllRecv, GetChipId, Types, Flags
  <1>4. manager' \in List /\ saved' \in List
    <2>1. Empty \in List
      BY HoldingType
    <2>2. WithoutFinger \in List
      BY <2>1 DEF WithoutFinger, Types, List
    <2> QED
      BY <2>1, <2>2 DEF DeleteRecv, DeleteAllRecv, GetChipId, Types
  <1>5. Types'
    BY <1>2, <1>3, <1>4 DEF Types, Flags
  <1>6. ~crossed => Alone(up, down')
    BY <1>1, ArrivesAlone
  <1>7. LineInv'
    BY <1>2, <1>3, <1>6 DEF LineInv
  <1> QED
    BY <1>5, <1>7

(* The steps of GetNumberRecv: a finger list that differs is wiped. *)
LEMMA NumberEffect ==
  ASSUME Types, GetNumberRecv
  PROVE  /\ Arrives("GET_REG_NUM", FALSE) /\ checked' = TRUE
         /\ UNCHANGED <<delSave, chip, ui, crossed, missing>>
         /\ up' \in Seq(UpFrame) /\ Others(up') = Others(up)
         /\ (slot' \in {"DELETE_ALL", "GET_CHIP_ID"} /\ Random \in Seen(up')) \/ slot' = slot
         /\ IF Head(down).arg # manager.num
            THEN /\ manager' = Empty /\ saved' = Empty /\ index' = 1
                 /\ awaiting' = DeleteAllCounted(Without("GET_REG_NUM"))
                 /\ slot' \in {"DELETE_ALL", "GET_CHIP_ID"}
            ELSE /\ UNCHANGED <<manager, saved, index>>
                 /\ awaiting' = Without("GET_REG_NUM")
                 /\ slot' # "DELETE_ALL" \/ slot' = slot
  <1> DEFINE differs == Head(down).arg # manager.num
             asked == IF differs THEN <<Random>> ELSE <<>>
  <1>1. up' = up \o asked \o (IF ~chip THEN <<Random>> ELSE <<>>)
    BY DEF GetNumberRecv
  <1>2. /\ up \in Seq(UpFrame) /\ Random \in UpFrame /\ Random.cmd = "RANDOM"
    BY RandomFrame DEF Types
  <1>3. \A u \in Seq(UpFrame) : u \o <<>> = u /\ u \o <<Random>> = Append(u, Random)
    BY <1>2
  <1>4. \A u \in Seq(UpFrame) :
           /\ Append(u, Random) \in Seq(UpFrame) /\ Others(Append(u, Random)) = Others(u)
           /\ Random \in Seen(Append(u, Random))
    BY <1>2, AppendSeen
  <1>5. up \o asked \in Seq(UpFrame) /\ Others(up \o asked) = Others(up)
    BY <1>2, <1>3, <1>4
  <1>6. up' \in Seq(UpFrame) /\ Others(up') = Others(up)
    BY <1>1, <1>2, <1>3, <1>4, <1>5
  <1>7. ~chip => Random \in Seen(up')
    BY <1>1, <1>3, <1>4, <1>5
  <1>8. chip /\ differs => Random \in Seen(up')
    BY <1>1, <1>2, <1>3, <1>4, <1>5
  <1> HIDE DEF asked
  <1> QED
    BY <1>6, <1>7, <1>8 DEF GetNumberRecv

LEMMA WithoutType ==
  ASSUME Types
  PROVE  /\ \A c : Without(c) \in Seq(Commands)
         /\ \A s \in Seq(Commands) : /\ DeleteAllCounted(s) \in Seq(Commands)
                                     /\ "DELETE_ALL" \in Seen(DeleteAllCounted(s))
  <1>1. \A c, s : s \in Seq(Commands) => Remove(s, c) \in Seq(Commands)
    BY RemoveType
  <1>2. "DELETE_ALL" \in Commands
    BY DEF Commands, Timed
  <1>3. \A c : Without(c) \in Seq(Commands)
    BY <1>1 DEF Without, Types
  <1>4. ASSUME NEW s \in Seq(Commands)
        PROVE  DeleteAllCounted(s) \in Seq(Commands) /\ "DELETE_ALL" \in Seen(DeleteAllCounted(s))
    BY <1>1, <1>2, AppendSeen DEF DeleteAllCounted
  <1> QED
    BY <1>3, <1>4

LEMMA NumberLine == ASSUME Types, LineInv, GetNumberRecv PROVE Types' /\ LineInv'
  <1>1. Arrives("GET_REG_NUM", FALSE) /\ "GET_REG_NUM" \in Names \ {"RANDOM"} /\ FALSE \in BOOLEAN
    BY NumberEffect DEF Names, Commands, Timed
  <1>2. /\ down' \in Seq(DownFrame) /\ Others(down') \subseteq Others(down)
        /\ module' = module /\ doing' = doing /\ Head(down).cmd = "GET_REG_NUM"
        /\ Others(down) = {Head(down)} \cup Others(down')
    BY <1>1, ArrivesEffect
  <1>3. manager' \in List /\ saved' \in List /\ index' \in Fingers
    <2>1. Empty \in List /\ 1 \in Fingers
      BY HoldingType DEF Fingers
    <2> QED
      BY <2>1, NumberEffect DEF Types
  <1>4. awaiting' \in Seq(Commands)
    BY NumberEffect, WithoutType
  <1>5. slot' \in Commands \cup {NoCmd}
    BY NumberEffect DEF Types, Commands, Timed
  <1>6. Types'
    BY <1>2, <1>3, <1>4, <1>5, NumberEffect DEF Types, Flags
  <1>7. LineInv'
    <2> SUFFICES ASSUME ~crossed PROVE LineInv'
      BY NumberEffect DEF LineInv
    <2>1. slot = NoCmd /\ Others(up) = {} /\ Others(down') = {}
      BY <1>1, ArrivesAlone
    <2>2. Others(up') = {} /\ Alone(up', down')
      BY <2>1, NumberEffect, NothingAlone
    <2>3. ui # "adding" /\ ui' = ui
      BY <1>2, NumberEffect DEF LineInv
    <2>4. NoCmd \notin Timed /\ "GET_CHIP_ID" \notin Timed
      BY DEF NoCmd, Timed
    <2>5. slot' \in Timed => slot' \in Seen(awaiting')
      BY <2>1, <2>4, NumberEffect, WithoutType
    <2> QED
      BY <2>1, <2>2, <2>3, <2>5 DEF LineInv
  <1> QED
    BY <1>6, <1>7

LEMMA TimeoutLine == ASSUME Types, LineInv, FpTimeoutHandle PROVE Types' /\ LineInv'
  <1> DEFINE c == Head(awaiting)
  <1>1. awaiting # <<>> /\ up = <<>> /\ down = <<>> /\ c \in Commands /\ 1 \in Fingers
    BY DEF FpTimeoutHandle, Types, Fingers
  <1>2. PICK i \in Fingers : Ask(c, i, <<c>>)
    BY <1>1 DEF FpTimeoutHandle, CountersAfter, Types
  <1>3. UNCHANGED <<delSave, manager, chip, saved, ui, down, module, doing, checked, crossed, missing>>
    BY DEF FpTimeoutHandle
  <1>4. awaiting = <<"REG">> => c = "REG"
    OBVIOUS
  <1> HIDE DEF c
  <1>5. <<c>> \in Seq(Commands) /\ c \in Seen(<<c>>)
    BY <1>1, OneSeen
  <1>6. Types'
    BY <1>1, <1>2, <1>3, <1>5, AskTypes DEF Types, Flags
  <1>7. LineInv'
    <2> SUFFICES ASSUME ~crossed PROVE LineInv'
      BY <1>3 DEF LineInv
    <2>1. Others(up) = {} /\ Others(down) = {}
      BY <1>1, OthersEmpty
    <2>2. /\ slot' = c /\ awaiting' = <<c>> /\ Others(up') = {} /\ Others(down') = {}
      BY <1>1, <1>2, <1>3, <2>1, AskEffect
    <2>3. Alone(up', down')
      BY <2>2, NothingAlone
    <2>4. ui = "adding" => c = "REG"
      BY <1>1, <1>4 DEF LineInv
    <2> QED
      BY <1>3, <1>5, <2>2, <2>3, <2>4 DEF LineInv
  <1> QED
    BY <1>6, <1>7

(* The module takes a frame and answers it. *)
LEMMA AnswerEffect ==
  ASSUME Types, Answer
  PROVE  /\ Head(up) \in UpFrame /\ up # <<>> /\ up' = Tail(up) /\ up' \in Seq(UpFrame)
         /\ Others(up') \subseteq Others(up)
         /\ Head(up).cmd = "RANDOM" => Others(up') = Others(up)
         /\ Head(up).cmd # "RANDOM" => Others(up) = {Head(up)} \cup Others(up')
         /\ down' = down \o Answers(Head(up).cmd, Head(up).arg)
         /\ Head(up).cmd \in Names /\ Head(up).arg \in Fingers
         /\ UNCHANGED <<ram, saved, ui, checked, crossed, missing>>
  <1>1. /\ up # <<>> /\ up' = Tail(up) /\ down' = down \o Answers(Head(up).cmd, Head(up).arg)
        /\ UNCHANGED <<ram, saved, ui, checked, crossed, missing>>
    BY DEF Answer
  <1>2. up \in Seq(UpFrame)
    BY DEF Types
  <1>3. /\ Head(up) \in UpFrame /\ Tail(up) \in Seq(UpFrame)
        /\ Others(Tail(up)) \subseteq Others(up)
        /\ Head(up).cmd = "RANDOM" => Others(Tail(up)) = Others(up)
        /\ Head(up).cmd # "RANDOM" => Others(up) = {Head(up)} \cup Others(Tail(up))
    BY <1>1, <1>2, TailSeen
  <1>4. Head(up).cmd \in Names /\ Head(up).arg \in Fingers
    BY <1>3 DEF UpFrame
  <1> QED
    BY <1>1, <1>3, <1>4

LEMMA AnswersSeen ==
  ASSUME NEW d \in Seq(DownFrame), NEW c \in Names, NEW i \in Fingers, module \in SUBSET Fingers
  PROVE  /\ d \o Answers(c, i) \in Seq(DownFrame)
         /\ Seen(d \o Answers(c, i)) = Seen(d) \cup Seen(Answers(c, i))
         /\ Others(d \o Answers(c, i)) = Others(d) \cup Others(Answers(c, i))
         /\ \A f \in Others(Answers(c, i)) : f.cmd = c /\ c # "RANDOM"
         /\ \A u : Others(u) = {} /\ (c # "RANDOM" => Others(d) = {}) /\ Alone(u, d) =>
                     Alone(u, d \o Answers(c, i))
         /\ \A u : c = "RANDOM" /\ Alone(u, d) => Alone(u, d \o Answers(c, i))
  <1>1. CASE \E r \in DownFrame : Answers(c, i) = <<r>> /\ r.cmd = c /\ (r.ack \/ r.cmd = "RANDOM")
    <2>1. PICK r \in DownFrame : Answers(c, i) = <<r>> /\ r.cmd = c
      BY <1>1
    <2>2. d \o Answers(c, i) = Append(d, r)
      BY <2>1
    <2>3. Seen(Answers(c, i)) = {r}
      BY <2>1, OneSeen
    <2>4. /\ Append(d, r) \in Seq(DownFrame) /\ Seen(Append(d, r)) = Seen(d) \cup {r}
      BY AppendSeen
    <2>5. ASSUME NEW u, Others(u) = {}, c # "RANDOM" => Others(d) = {}, Alone(u, d)
          PROVE  Alone(u, d \o Answers(c, i))
      <3>1. /\ r.cmd = "RANDOM" => Others(Append(d, r)) = Others(d)
            /\ \A k \in Places(Append(d, r)) :
                 \/ k \in Places(d) /\ Append(d, r)[k] = d[k]
                 \/ k = Len(d) + 1 /\ r.cmd # "RANDOM"
        BY AppendSeen
      <3>2. c # "RANDOM" => Places(d) = {}
        BY <2>5, OthersPlaces
      <3>3. Len(d) + 1 \in Nat
        OBVIOUS
      <3>4. c # "RANDOM" => \A j, k \in Places(Append(d, r)) : ~(j < k)
        BY <3>1, <3>2, <3>3
      <3>5. c = "RANDOM" => \A k \in Places(Append(d, r)) : k \in Places(d) /\ Append(d, r)[k] = d[k]
        BY <2>1, <3>1
      <3>6. CASE c = "RANDOM"
        <4>1. Alone(u, Append(d, r))
          BY <2>5, <3>5, <3>6 DEF Alone
        <4> QED
          BY <2>2, <4>1
      <3>7. CASE c # "RANDOM"
        <4>1. Alone(u, Append(d, r))
          BY <2>5, <3>4, <3>7 DEF Alone
        <4> QED
          BY <2>2, <4>1
      <3> QED
        BY <3>6, <3>7
    <2>6. ASSUME NEW u, c = "RANDOM", Alone(u, d) PROVE Alone(u, d \o Answers(c, i))
      <3>1. \A k \in Places(Append(d, r)) : k \in Places(d) /\ Append(d, r)[k] = d[k]
        BY <2>1, <2>6, AppendSeen
      <3>2. Others(Append(d, r)) = Others(d)
        BY <2>1, <2>6, AppendSeen
      <3>3. Alone(u, Append(d, r))
        BY <2>6, <3>1, <3>2 DEF Alone
      <3> QED
        BY <2>2, <3>3
    <2>7. Others(Append(d, r)) = Others(d) \cup Others(Answers(c, i))
      BY <2>3, <2>4 DEF Others
    <2>8. \A f \in Others(Answers(c, i)) : f.cmd = c /\ c # "RANDOM"
      BY <2>1, <2>3 DEF Others
    <2> QED
      BY <2>2, <2>3, <2>4, <2>5, <2>6, <2>7, <2>8
  <1>2. CASE \E a, r \in DownFrame : /\ Answers(c, i) = <<a, r>> /\ a.cmd = c /\ r.cmd = c
                                     /\ a.ack /\ ~r.ack /\ c # "RANDOM"
    <2>1. PICK a \in DownFrame, r \in DownFrame :
             /\ Answers(c, i) = <<a, r>> /\ a.cmd = c /\ r.cmd = c /\ a.ack /\ ~r.ack /\ c # "RANDOM"
      BY <1>2
    <2>0. PICK e \in Seq(DownFrame) : e = Append(d, a)
      BY AppendSeen
    <2>2. d \o Answers(c, i) = Append(e, r)
      BY <2>0, <2>1
    <2>3. Seen(Answers(c, i)) = {a, r}
      <3>1. DOMAIN <<a, r>> = {1, 2} /\ <<a, r>>[1] = a /\ <<a, r>>[2] = r
        OBVIOUS
      <3> QED
        BY <2>1, <3>1 DEF Seen
    <2>4. Seen(e) = Seen(d) \cup {a}
      BY <2>0, AppendSeen
    <2>5. Append(e, r) \in Seq(DownFrame) /\ Seen(Append(e, r)) = Seen(d) \cup {a, r}
      BY <2>4, AppendSeen
    <2>6. ASSUME NEW u, Others(u) = {}, Others(d) = {}
          PROVE  Alone(u, Append(e, r))
      <3>1. Places(d) = {}
        BY <2>6, OthersPlaces
      <3>2. \A k \in Places(e) : k = Len(d) + 1 /\ e[k] = a
        BY <2>0, <3>1, AppendSeen
      <3>3. \A k \in Places(Append(e, r)) :
               \/ k \in Places(e) /\ Append(e, r)[k] = e[k]
               \/ k = Len(e) + 1 /\ Append(e, r)[k] = r
        BY AppendSeen
      <3>4. Len(e) = Len(d) + 1 /\ Len(d) \in Nat
        BY <2>0
      <3>5. ASSUME NEW j \in Places(Append(e, r)), NEW k \in Places(Append(e, r)), j < k
            PROVE  Append(e, r)[j] = a /\ Append(e, r)[k] = r
        BY <3>2, <3>3, <3>4, <3>5
      <3>6. \A j, k \in Places(Append(e, r)) : j < k =>
               /\ Append(e, r)[j].ack /\ ~Append(e, r)[k].ack
               /\ Append(e, r)[j].cmd = Append(e, r)[k].cmd
        BY <2>1, <3>5
      <3>7. \A j, k \in Places(u) : j = k
        BY <2>6, OthersPlaces
      <3> QED
        BY <2>6, <3>6, <3>7 DEF Alone
    <2>7. Others(Append(e, r)) = Others(d) \cup Others(Answers(c, i))
      BY <2>3, <2>5 DEF Others
    <2>8. \A f \in Others(Answers(c, i)) : f.cmd = c /\ c # "RANDOM"
      BY <2>1, <2>3 DEF Others
    <2>9. Seen(d \o Answers(c, i)) = Seen(d) \cup Seen(Answers(c, i))
      BY <2>2, <2>3, <2>5
    <2> QED
      BY <2>1, <2>2, <2>5, <2>6, <2>7, <2>8, <2>9
  <1> QED
    BY <1>1, <1>2, AnswerFrame

LEMMA AnswerLine == ASSUME Types, LineInv, Answer PROVE Types' /\ LineInv'
  <1> DEFINE c == Head(up).cmd
             i == Head(up).arg
  <1>1. c \in Names /\ i \in Fingers /\ module \in SUBSET Fingers /\ down \in Seq(DownFrame)
    BY AnswerEffect DEF Types
  <1>2. /\ down' = down \o Answers(c, i) /\ up' = Tail(up) /\ up' \in Seq(UpFrame) /\ up # <<>>
        /\ UNCHANGED <<ram, saved, ui, checked, crossed, missing>>
        /\ Others(up') \subseteq Others(up)
    BY AnswerEffect
  <1>3. /\ module' \in SUBSET Fingers /\ doing' \in Fingers \cup {None}
    BY <1>1 DEF Answer, Types
  <1> HIDE DEF c, i
  <1>4. down' \in Seq(DownFrame)
    BY <1>1, <1>2, AnswersSeen
  <1>5. Types'
    BY <1>2, <1>3, <1>4 DEF Types, Flags
  <1>6. LineInv'
    <2> SUFFICES ASSUME ~crossed PROVE LineInv'
      BY <1>2 DEF LineInv
    <2>1. /\ Alone(up', down)
          /\ c # "RANDOM" => Others(up') = {} /\ Others(down) = {}
      BY <1>2, TailAlone DEF LineInv, Types, c
    <2>2. Alone(up', down')
      BY <1>1, <1>2, <2>1, AnswersSeen
    <2>3. c # "RANDOM" => Others(up) # {} /\ c \in {f.cmd : f \in Others(up)}
      BY AnswerEffect DEF c
    <2>4. /\ Others(down') = Others(down) \cup Others(Answers(c, i))
          /\ \A f \in Others(Answers(c, i)) : f.cmd = c /\ c # "RANDOM"
      BY <1>1, <1>2, AnswersSeen
    <2>5. slot # NoCmd => Others(up') = {} /\ Others(down') = {}
      BY <1>2, <2>3, <2>4 DEF LineInv
    <2>6. ui = "adding" => \A f \in Others(up') \cup Others(down') : f.cmd = "REG"
      BY <1>2, <2>3, <2>4 DEF LineInv
    <2> QED
      BY <1>2, <2>2, <2>5, <2>6 DEF LineInv
  <1> QED
    BY <1>5, <1>6

(* A touch the user was waiting for is alone on the line. *)
LEMMA TouchEffect ==
  ASSUME Types, NEW good \in BOOLEAN, Touch(good)
  PROVE  /\ doing \in Fingers /\ down' = Append(down, Result("REG", good, doing))
         /\ Result("REG", good, doing) \in DownFrame /\ Result("REG", good, doing).cmd = "REG"
         /\ ~Result("REG", good, doing).ack
         /\ UNCHANGED <<ram, saved, ui, up, checked, missing>>
         /\ ~crossed' => ~crossed /\ ui = "adding" /\ Quiet
         /\ crossed' \in BOOLEAN
         /\ IF good THEN module' = module \cup {doing} /\ doing' = None
            ELSE UNCHANGED <<module, doing>>
  <1>1. doing \in Fingers
    BY DEF Touch, Types
  <1>2. doing \in Nat
    BY <1>1 DEF Fingers
  <1>3. Result("REG", good, doing) \in DownFrame /\ Result("REG", good, doing).cmd = "REG"
        /\ ~Result("REG", good, doing).ack
    BY <1>1, <1>2 DEF Result, DownFrame, Names, Commands, Timed
  <1>4. crossed' = (crossed \/ ui # "adding" \/ ~Quiet) /\ crossed \in BOOLEAN
    BY DEF Touch, Types, Flags
  <1>5. ~crossed' => ~crossed /\ ui = "adding" /\ Quiet
    BY <1>4
  <1>6. crossed' \in BOOLEAN
    BY <1>4
  <1> QED
    BY <1>1, <1>3, <1>5, <1>6 DEF Touch

LEMMA TouchLine ==
  ASSUME Types, LineInv, NEW good \in BOOLEAN, Touch(good)
  PROVE  Types' /\ LineInv'
  <1>0. PICK f \in DownFrame :
           /\ f = Result("REG", good, doing) /\ f.cmd = "REG" /\ f.cmd # "RANDOM"
           /\ down' = Append(down, f)
    BY TouchEffect
  <1>1. down' \in Seq(DownFrame) /\ Seen(down') = Seen(down) \cup {f}
    BY <1>0, AppendSeen DEF Types
  <1>2. module' \in SUBSET Fingers /\ doing' \in Fingers \cup {None}
    BY TouchEffect DEF Types
  <1>3. Types'
    BY <1>1, <1>2, TouchEffect DEF Types, Flags
  <1>4. LineInv'
    <2> SUFFICES ASSUME ~crossed' PROVE LineInv'
      BY DEF LineInv
    <2>1. ~crossed /\ ui = "adding" /\ Quiet
      BY TouchEffect
    <2>2. Others(up) = {} /\ Others(down) = {} /\ Seen(awaiting) = {}
      BY <2>1, QuietEffect
    <2>3. slot = NoCmd
      BY <2>1, <2>2 DEF LineInv, Timed
    <2>4. Alone(up, down')
      <3>1. Alone(up, down) /\ up \in Seq(UpFrame) /\ down \in Seq(DownFrame)
        BY <2>2, NothingAlone DEF Types
      <3> QED
        BY <1>0, <2>2, <3>1, AppendAlone
    <2>5. Others(down') = {f}
      BY <1>0, <1>1, <2>2 DEF Others
    <2>6. NoCmd \notin Timed
      BY DEF NoCmd, Timed
    <2> QED
      BY <1>0, <2>1, <2>2, <2>3, <2>4, <2>5, <2>6, TouchEffect DEF LineInv
  <1> QED
    BY <1>3, <1>4

LEMMA LoseLine == ASSUME Types, LineInv, Lose PROVE Types' /\ LineInv'
  <1>1. UNCHANGED <<ram, saved, ui, module, doing, checked, crossed>>
    BY DEF Lose
  <1>2. /\ \/ up # <<>> /\ up' = Tail(up) /\ UNCHANGED down
           \/ down # <<>> /\ down' = Tail(down) /\ UNCHANGED up
        /\ missing' \in BOOLEAN
    BY DEF Lose, Types, Flags
  <1>3. /\ up' \in Seq(UpFrame) /\ down' \in Seq(DownFrame)
        /\ Others(up') \subseteq Others(up) /\ Others(down') \subseteq Others(down)
    <2>1. up \in Seq(UpFrame) /\ down \in Seq(DownFrame)
      BY DEF Types
    <2>2. CASE up # <<>> /\ up' = Tail(up) /\ UNCHANGED down
      BY <2>1, <2>2, TailSeen
    <2>3. CASE down # <<>> /\ down' = Tail(down) /\ UNCHANGED up
      BY <2>1, <2>3, TailSeen
    <2> QED
      BY <1>2, <2>2, <2>3
  <1>4. Types'
    BY <1>1, <1>2, <1>3 DEF Types, Flags
  <1>5. ~crossed => Alone(up', down')
    <2>1. up \in Seq(UpFrame) /\ down \in Seq(DownFrame) /\ (~crossed => Alone(up, down))
      BY DEF LineInv, Types
    <2>2. CASE up # <<>> /\ up' = Tail(up) /\ UNCHANGED down
      BY <2>1, <2>2, TailAlone
    <2>3. CASE down # <<>> /\ down' = Tail(down) /\ UNCHANGED up
      BY <2>1, <2>3, TailAlone
    <2> QED
      BY <1>2, <2>2, <2>3
  <1>6. LineInv'
    BY <1>1, <1>3, <1>5 DEF LineInv
  <1> QED
    BY <1>4, <1>6

LEMMA BootLine ==
  /\ <<Random>> \in Seq(UpFrame) /\ <<>> \in Seq(DownFrame)
  /\ <<"GET_REG_NUM">> \in Seq(Commands) /\ "GET_REG_NUM" \in Commands
  /\ Others(<<Random>>) = {} /\ Others(<<>>) = {} /\ Alone(<<Random>>, <<>>)
  /\ Seen(<<"GET_REG_NUM">>) = {"GET_REG_NUM"}
  <1>1. Random \in UpFrame /\ Random.cmd = "RANDOM"
    BY RandomFrame
  <1>2. Others(<<Random>>) = {} /\ Others(<<>>) = {}
    BY <1>1, OneSeen, OthersEmpty DEF Others
  <1>3. <<Random>> \in Seq(UpFrame) /\ <<>> \in Seq(DownFrame)
    BY <1>1
  <1>4. <<"GET_REG_NUM">> \in Seq(Commands) /\ "GET_REG_NUM" \in Commands
    BY DEF Commands, Timed
  <1> QED
    BY <1>2, <1>3, <1>4, NothingAlone, OneSeen

LEMMA RebootLine == ASSUME Types, LineInv, Reboot PROVE Types' /\ LineInv'
  <1>1. /\ up' = <<Random>> /\ down' = <<>> /\ slot' = "GET_REG_NUM"
        /\ awaiting' = <<"GET_REG_NUM">> /\ ui' = "manager"
    BY DEF Reboot
  <1>2. LineInv' /\ up' \in Seq(UpFrame) /\ down' \in Seq(DownFrame)
        /\ awaiting' \in Seq(Commands) /\ slot' \in Commands
    BY <1>1, BootLine DEF LineInv
  <1>3. 0 \in Fingers
    BY DEF Fingers
  <1> QED
    BY <1>2, <1>3 DEF Reboot, Types, Flags

LEMMA InitLine == Init => Types /\ LineInv
  <1> SUFFICES ASSUME Init PROVE Types /\ LineInv
    OBVIOUS
  <1>1. LineInv /\ up \in Seq(UpFrame) /\ down \in Seq(DownFrame)
        /\ awaiting \in Seq(Commands) /\ slot \in Commands
    BY BootLine DEF Init, LineInv
  <1>2. manager \in List /\ saved \in List /\ module \in SUBSET Fingers
    BY HoldingType DEF Init
  <1>3. 0 \in Fingers
    BY DEF Fingers
  <1> QED
    BY <1>1, <1>2, <1>3 DEF Init, Types, Flags

LEMMA SameLine == Types /\ LineInv /\ UNCHANGED vars => Types' /\ LineInv'
  BY DEF vars, Types, Flags, LineInv

LEMMA LineStep == Types /\ LineInv /\ [Next]_vars => Types' /\ LineInv'
  <1> SUFFICES ASSUME Types, LineInv, [Next]_vars PROVE Types' /\ LineInv'
    OBVIOUS
  <1>1. CASE \/ Add \/ Cancel \/ Leave \/ CancelRegister \/ PasswordRight
             \/ \E i \in Fingers : Delete(i)
    BY <1>1, AddLine, CancelLine, LeaveLine, DeleteLine, PasswordLine
  <1>2. CASE Receive
    BY <1>2, RandomLine, AcknowledgedLine, RegLine, DeletedLine, NumberLine DEF Receive
  <1>3. CASE FpTimeoutHandle \/ Answer \/ Lose \/ Reboot \/ \E good \in BOOLEAN : Touch(good)
    BY <1>3, TimeoutLine, AnswerLine, TouchLine, LoseLine, RebootLine
  <1>4. CASE Rest \/ UNCHANGED vars
    BY <1>4, SameLine DEF Rest
  <1> QED
    BY <1>1, <1>2, <1>3, <1>4 DEF Next

(* While the user waits for the module there is one command at a time on    *)
(* the line (fingerprint_process.c: FpGenericSend, FpDelayMsgSend), and the  *)
(* variables keep their types.                                              *)
THEOREM LineStays == Spec => [](Types /\ LineInv)
  BY InitLine, LineStep, PTL DEF Spec

(* A command that waits for its random number has its counter running, so   *)
(* that it is given again when that number is lost (fingerprint_process.c:  *)
(* FpDelayMsgSend, FpTimeoutHandle), for any number of losses and restarts. *)
THEOREM NothingIsForgotten == Spec => []NothingForgotten
  <1>1. Types /\ LineInv => NothingForgotten
    BY DEF LineInv, NothingForgotten, Seen
  <1> QED
    BY <1>1, LineStays, PTL

-----------------------------------------------------------------------------
(* The phases of the list                                                   *)

Randoms == \E f \in Seen(up) \cup Seen(down) : f.cmd = "RANDOM"

(* After a boot: the list and the module differ by what the last operation  *)
(* had not finished, and the number of fingers is asked for.                *)
Counting ==
    /\ ui = "manager" /\ doing = None /\ ~delSave
    /\ slot \in {"GET_REG_NUM", NoCmd} /\ awaiting \in {<<>>, <<"GET_REG_NUM">>}
    /\ slot # NoCmd => awaiting = <<slot>>
    /\ \A f \in Others(up) : f.cmd = "GET_REG_NUM"
    /\ \A f \in Others(down) : /\ f.cmd = "GET_REG_NUM"
                               /\ f.ack \/ f.arg = Cardinality(module)
    /\ awaiting = <<>> \/ Others(down) # {} => \E f \in Others(down) : ~f.ack
    /\ manager.id \subseteq module \/ module \subseteq manager.id

(* The list is that of the module: nothing is under way, or a command that  *)
(* has not changed it yet, or will not.                                     *)
Plain == {"REG", "DELETE_SINGLE", "CANCEL", "GET_CHIP_ID"}

SettledQueue ==
    /\ slot \in Plain \cup {NoCmd}
    /\ awaiting = <<>> \/ \E c \in Plain : awaiting = <<c>>
    /\ slot \in Timed => awaiting = <<slot>>
    /\ slot # NoCmd => awaiting = <<slot>> \/ (awaiting = <<>> /\ Randoms)
    /\ awaiting = <<"REG">> => ui = "adding" /\ index \notin manager.id
    /\ awaiting = <<"DELETE_SINGLE">> => ui = "manager" /\ doing = None

SettledUp ==
    \A f \in Others(up) :
        /\ f.cmd \in Plain /\ awaiting = <<f.cmd>>
        /\ f.cmd = "DELETE_SINGLE" => f.arg = index
        /\ f.cmd = "REG" => f.arg \notin manager.id

SettledDown ==
    \A f \in Others(down) :
        /\ f.cmd \in Plain \cup {"DELETE_ALL"}
        /\ f.cmd = "DELETE_SINGLE" => f.ack \/ ~f.ok
        /\ f.cmd = "REG" => f.ack \/ (~f.ok /\ ui = "adding" /\ awaiting = <<>>)
        /\ f.cmd = "CANCEL" => doing = None
        /\ f.cmd = "DELETE_ALL" => manager = Empty

SettledDoing ==
    doing # None => /\ doing \notin manager.id
                    /\ ui = "adding" \/ slot = "CANCEL" \/ awaiting = <<"CANCEL">>

Settled ==
    /\ module = manager.id /\ ~delSave /\ ui # "keyboard"
    /\ SettledQueue /\ SettledUp /\ SettledDown /\ SettledDoing

(* The finger is known to the module, and the device is being told so. *)
Registered ==
    /\ ui = "adding" /\ ~delSave /\ slot = NoCmd /\ awaiting = <<>> /\ up = <<>> /\ doing = None
    /\ \E i \in Fingers \ manager.id :
          down = <<Result("REG", TRUE, i)>> /\ module = manager.id \cup {i}

(* The user is asked for the password. *)
Keyboard ==
    /\ ui = "keyboard" /\ ~delSave /\ slot = NoCmd /\ Quiet /\ doing = None
    /\ index \notin manager.id /\ module = manager.id \cup {index}

(* The user has not given it: the finger is to be deleted. *)
Undoing ==
    /\ ui = "manager" /\ delSave /\ awaiting = <<"DELETE_SINGLE">> /\ doing = None
    /\ slot \in {NoCmd, "DELETE_SINGLE"}
    /\ \A f \in Others(up) : f = Command("DELETE_SINGLE", index)
    /\ Others(down) = {}
    /\ index \notin manager.id /\ module = manager.id \cup {index}

(* The module has deleted a finger, and the device is being told so. *)
Deleted ==
    /\ ui = "manager" /\ awaiting \in {<<>>, <<"DELETE_SINGLE">>} /\ doing = None
    /\ slot = NoCmd /\ Others(up) = {}
    /\ \A f \in Others(down) : f.cmd = "DELETE_SINGLE" /\ (f.ack \/ f.ok)
    /\ \E f \in Others(down) : ~f.ack
    /\ IF delSave THEN module = manager.id
       ELSE index \in manager.id /\ module = manager.id \ {index}

(* The list is empty, and the module is told to delete all its fingers. *)
Wiping ==
    /\ ui = "manager" /\ ~delSave /\ doing = None /\ manager = Empty
    /\ awaiting \in {<<"DELETE_ALL">>, <<"DELETE_ALL", "GET_CHIP_ID">>}
    /\ slot \in {NoCmd, "DELETE_ALL", "GET_CHIP_ID"}
    /\ slot # NoCmd => awaiting = <<"DELETE_ALL">>
    /\ \A f \in Others(up) : f.cmd \in {"DELETE_ALL", "GET_CHIP_ID"}
    /\ \A f \in Others(down) : /\ f.cmd \in {"DELETE_ALL", "GET_CHIP_ID"}
                               /\ f.cmd = "DELETE_ALL" => module = {}

Phase ==
    /\ saved = manager /\ manager = Holding(manager.id)
    /\ IF checked
       THEN Settled \/ Registered \/ Keyboard \/ Undoing \/ Deleted \/ Wiping
       ELSE Counting

PhaseInv == ~crossed /\ ~missing => Phase

-----------------------------------------------------------------------------
(* The phases: the user                                                     *)

LEMMA Words ==
  /\ NoCmd \notin Plain /\ NoCmd \notin Timed /\ NoCmd # "CANCEL" /\ NoCmd # "DELETE_SINGLE"
  /\ NoCmd # "GET_REG_NUM" /\ NoCmd # "DELETE_ALL" /\ NoCmd # "GET_CHIP_ID"
  /\ Plain \subseteq Commands /\ "RANDOM" \notin Commands
  BY DEF NoCmd, Plain, Timed, Commands

LEMMA Tuples ==
  /\ \A c : <<c>> # <<>> /\ Head(<<c>>) = c /\ Tail(<<c>>) = <<>>
  /\ \A c, d : <<c>> = <<d>> => c = d
  /\ \A c, d : <<c, d>> # <<>> /\ Head(<<c, d>>) = c
  /\ \A c, d, e : <<c, d>> # <<e>>
  /\ \A c : Append(<<>>, c) = <<c>>
  /\ \A c, d : Append(<<d>>, c) = <<d, c>>
  <1>1. \A c : <<c>> # <<>> /\ Head(<<c>>) = c /\ Tail(<<c>>) = <<>>
    OBVIOUS
  <1>2. \A c, d : <<c>> = <<d>> => c = d
    <2> TAKE c, d
    <2>1. <<c>>[1] = c /\ <<d>>[1] = d
      OBVIOUS
    <2> QED
      BY <2>1
  <1>3. \A c, d : <<c, d>> # <<>> /\ Head(<<c, d>>) = c
    OBVIOUS
  <1>4. \A c, d, e : <<c, d>> # <<e>>
    <2> TAKE c, d, e
    <2>1. Len(<<c, d>>) = 2 /\ Len(<<e>>) = 1
      OBVIOUS
    <2> QED
      BY <2>1
  <1>5. \A c : Append(<<>>, c) = <<c>>
    OBVIOUS
  <1>6. \A c, d : Append(<<d>>, c) = <<d, c>>
    <2> TAKE c, d
    <2>1. PICK S, s : S = {c, d} /\ s = <<d>>
      OBVIOUS
    <2>2. s \in Seq(S) /\ Len(s) = 1 /\ s[1] = d /\ c \in S /\ d \in S
      BY <2>1
    <2>3. /\ Append(s, c) \in Seq(S) /\ Len(Append(s, c)) = 2
          /\ Append(s, c)[1] = d /\ Append(s, c)[2] = c
      <3>1. /\ Append(s, c) \in Seq(S) /\ Len(Append(s, c)) = Len(s) + 1
            /\ Append(s, c)[Len(s) + 1] = c
            /\ \A k \in 1..Len(s) : Append(s, c)[k] = s[k]
        BY <2>2, AppendParts
      <3>3. 1 \in 1..Len(s) /\ Len(s) + 1 = 2
        BY <2>2
      <3> QED
        BY <2>2, <3>1, <3>3
    <2>4. \A t \in Seq(S) : Len(t) = 2 /\ t[1] = d /\ t[2] = c => t = <<d, c>>
      OBVIOUS
    <2>5. Append(s, c) = <<d, c>>
      BY <2>3, <2>4
    <2> QED
      BY <2>1, <2>5
  <1> QED
    BY <1>1, <1>2, <1>3, <1>4, <1>5, <1>6

LEMMA StartedShapes ==
  \A c, d : /\ awaiting = <<>> => Started(c) = <<c>>
            /\ awaiting = <<c>> => Started(c) = <<c>>
            /\ awaiting = <<d>> /\ d # c => Started(c) = <<d, c>>
  <1> TAKE c, d
  <1>1. awaiting = <<>> => Without(c) = <<>>
    BY RemoveEmpty DEF Without
  <1>2. awaiting = <<c>> => Without(c) = <<>>
    BY RemoveOne DEF Without
  <1>3. awaiting = <<d>> /\ d # c => Without(c) = <<d>>
    BY RemoveOne DEF Without
  <1> QED
    BY <1>1, <1>2, <1>3, Tuples DEF Started

LEMMA WithoutShapes ==
  \A c, d : /\ awaiting = <<>> => Without(c) = <<>>
            /\ awaiting = <<d>> => Without(c) = IF d = c THEN <<>> ELSE <<d>>
  BY RemoveEmpty, RemoveOne DEF Without

(* Where the user may go on: everything is settled, or the password is asked *)
(* for.                                                                      *)
LEMMA QuietPhase ==
  ASSUME Phase, Quiet
  PROVE  checked /\ slot = NoCmd /\ (Settled \/ Keyboard)
  <1>1. /\ up = <<>> /\ down = <<>> /\ awaiting = <<>>
        /\ Others(up) = {} /\ Others(down) = {} /\ Seen(up) = {} /\ Seen(down) = {}
    BY QuietEffect, OthersEmpty
  <1>2. ~Counting
    BY <1>1 DEF Counting
  <1>3. ~Registered
    BY <1>1, Tuples DEF Registered
  <1>4. ~Undoing
    BY <1>1, Tuples DEF Undoing
  <1>5. ~Deleted
    BY <1>1 DEF Deleted
  <1>6. ~Wiping
    BY <1>1, Tuples DEF Wiping
  <1>7. ASSUME Settled PROVE slot = NoCmd
    BY <1>1, <1>7, Tuples DEF Settled, SettledQueue, Randoms
  <1>8. Keyboard => slot = NoCmd
    BY DEF Keyboard
  <1> QED
    BY <1>2, <1>3, <1>4, <1>5, <1>6, <1>7, <1>8 DEF Phase

LEMMA AddPhase ==
  ASSUME Types, LineInv, ~crossed', Phase, Add
  PROVE  Phase'
  <1>1. PICK i \in Fingers \ manager.id : Ask("REG", i, Started("REG"))
    BY DEF Add
  <1>2. /\ "REG" \in Commands /\ User({"manager", "limit"}) /\ ui' = "adding" /\ delSave' = delSave
        /\ "REG" \in Plain /\ "REG" # NoCmd /\ "REG" # "DELETE_SINGLE"
    BY DEF Add, Commands, Timed, Plain, NoCmd
  <1>3. /\ UNCHANGED <<saved, manager, down, module, doing, checked>> /\ Quiet
        /\ ui \in {"manager", "limit"}
    BY <1>2, UserEffect
  <1>4. checked /\ slot = NoCmd /\ Settled
    BY <1>3, QuietPhase DEF Keyboard
  <1>5. /\ slot' = "REG" /\ index' = i /\ awaiting' = <<"REG">>
        /\ Others(up') = {} /\ Others(down') = {}
    BY <1>1, <1>2, <1>3, AskEffect, QuietEffect, StartedShapes DEF Quiet
  <1>6. doing = None
    BY <1>3, <1>4, Tuples, Words DEF Settled, SettledDoing, Quiet
  <1>7. SettledQueue'
    BY <1>1, <1>2, <1>3, <1>5, Tuples DEF SettledQueue
  <1>8. SettledUp' /\ SettledDown' /\ SettledDoing'
    BY <1>3, <1>5, <1>6 DEF SettledUp, SettledDown, SettledDoing
  <1>9. Settled'
    BY <1>2, <1>3, <1>4, <1>7, <1>8 DEF Settled
  <1> QED
    BY <1>3, <1>4, <1>9 DEF Phase

LEMMA CancelPhase ==
  ASSUME Types, LineInv, ~crossed', Phase, Cancel
  PROVE  Phase'
  <1>1. /\ "CANCEL" \in Commands /\ User({"adding"}) /\ ui' = "manager"
        /\ Ask("CANCEL", index, awaiting) /\ delSave' = delSave
        /\ "CANCEL" \in Plain /\ "CANCEL" \notin Timed
    BY DEF Cancel, Commands, Timed, Plain
  <1>2. UNCHANGED <<saved, manager, down, module, doing, checked>> /\ Quiet /\ ui = "adding"
    BY <1>1, UserEffect
  <1>3. checked /\ slot = NoCmd /\ Settled
    BY <1>2, QuietPhase DEF Keyboard
  <1>4. /\ slot' = "CANCEL" /\ awaiting' = <<>> /\ Random \in Seen(up')
        /\ Others(up') = {} /\ Others(down') = {}
    BY <1>1, <1>2, AskEffect, QuietEffect DEF Types
  <1>5. Randoms'
    BY <1>4, RandomFrame DEF Randoms
  <1>6. SettledQueue'
    BY <1>1, <1>4, <1>5, Tuples DEF SettledQueue
  <1>7. SettledUp' /\ SettledDown' /\ SettledDoing'
    BY <1>2, <1>3, <1>4 DEF SettledUp, SettledDown, SettledDoing, Settled
  <1>8. Settled'
    BY <1>1, <1>2, <1>3, <1>6, <1>7 DEF Settled
  <1> QED
    BY <1>2, <1>3, <1>8 DEF Phase

LEMMA DeletePhase ==
  ASSUME Types, LineInv, ~crossed', Phase, NEW i \in Fingers, Delete(i)
  PROVE  Phase'
  <1>1. /\ "DELETE_SINGLE" \in Commands /\ User({"manager"}) /\ UNCHANGED <<delSave, ui>>
        /\ Ask("DELETE_SINGLE", i, Started("DELETE_SINGLE"))
        /\ "DELETE_SINGLE" \in Plain /\ "DELETE_SINGLE" # "REG" /\ "DELETE_SINGLE" # NoCmd
    BY DEF Delete, Commands, Timed, Plain, NoCmd
  <1>2. UNCHANGED <<saved, manager, down, module, doing, checked>> /\ Quiet /\ ui = "manager"
    BY <1>1, UserEffect
  <1>3. checked /\ slot = NoCmd /\ Settled
    BY <1>2, QuietPhase DEF Keyboard
  <1>4. /\ slot' = "DELETE_SINGLE" /\ awaiting' = <<"DELETE_SINGLE">>
        /\ Others(up') = {} /\ Others(down') = {}
    BY <1>1, <1>2, AskEffect, QuietEffect, StartedShapes DEF Quiet
  <1>5. doing = None
    BY <1>2, <1>3, Tuples, Words DEF Settled, SettledDoing, Quiet
  <1>6. SettledQueue'
    BY <1>1, <1>2, <1>4, <1>5, Tuples DEF SettledQueue
  <1>7. SettledUp' /\ SettledDown' /\ SettledDoing'
    BY <1>2, <1>4, <1>5 DEF SettledUp, SettledDown, SettledDoing
  <1>8. Settled'
    BY <1>1, <1>2, <1>3, <1>6, <1>7 DEF Settled
  <1> QED
    BY <1>2, <1>3, <1>8 DEF Phase

LEMMA CancelRegisterPhase ==
  ASSUME Types, LineInv, ~crossed', Phase, CancelRegister
  PROVE  Phase'
  <1>1. /\ "DELETE_SINGLE" \in Commands /\ User({"keyboard"}) /\ delSave' /\ ui' = "manager"
        /\ Ask("DELETE_SINGLE", index, Started("DELETE_SINGLE")) /\ index \in Fingers
    BY DEF CancelRegister, Commands, Timed, Types
  <1>2. UNCHANGED <<saved, manager, down, module, doing, checked>> /\ Quiet /\ ui = "keyboard"
    BY <1>1, UserEffect
  <1>3. checked /\ Keyboard
    BY <1>2, QuietPhase DEF Settled
  <1>4. /\ slot' = "DELETE_SINGLE" /\ awaiting' = <<"DELETE_SINGLE">> /\ index' = index
        /\ Others(up') = {} /\ Others(down') = {}
    BY <1>1, <1>2, AskEffect, QuietEffect, StartedShapes DEF Quiet
  <1>5. Undoing'
    BY <1>1, <1>2, <1>3, <1>4 DEF Undoing, Keyboard
  <1> QED
    BY <1>2, <1>3, <1>5 DEF Phase

(* The new finger is counted. *)
LEMMA HoldingMore ==
  ASSUME NEW s \in SUBSET Fingers, NEW i \in Fingers, i \notin s
  PROVE  Holding(s \cup {i}) = [id |-> s \cup {i}, num |-> Holding(s).num + 1]
  <1>1. Cardinality(s \cup {i}) = Cardinality(s) + 1
    BY FingersFinite, FS_AddElement
  <1> QED
    BY <1>1 DEF Holding

LEMMA PasswordPhase ==
  ASSUME Types, LineInv, ~crossed', Phase, PasswordRight
  PROVE  Phase'
  <1>1. /\ ui = "keyboard" /\ ui' = "manager" /\ manager' = WithFinger /\ saved' = manager'
        /\ UNCHANGED <<slot, index, awaiting, delSave, up, down, module, doing, checked>>
    BY DEF PasswordRight, Written
  <1>2. Quiet
    BY DEF PasswordRight, Types, Flags, Quiet
  <1>3. checked /\ Keyboard /\ slot = NoCmd /\ manager = Holding(manager.id)
    BY <1>1, <1>2, QuietPhase DEF Settled, Phase
  <1>4. manager.id \in SUBSET Fingers /\ index \in Fingers
    BY DEF Types, List
  <1>5. manager' = Holding(manager.id \cup {index})
    <2>1. index \notin manager.id
      BY <1>3 DEF Keyboard
    <2> QED
      BY <1>1, <1>3, <1>4, <2>1, HoldingMore DEF WithFinger
  <1>6. manager'.id = module' /\ manager' = Holding(manager'.id)
    BY <1>1, <1>3, <1>5 DEF Keyboard, Holding
  <1>7. Others(up') = {} /\ Others(down') = {} /\ awaiting' = <<>> /\ slot' = NoCmd /\ doing' = None
    BY <1>1, <1>2, <1>3, QuietEffect DEF Keyboard
  <1>8. SettledQueue' /\ SettledUp' /\ SettledDown' /\ SettledDoing'
    BY <1>7, Tuples, Words DEF SettledQueue, SettledUp, SettledDown, SettledDoing
  <1>9. Settled'
    BY <1>1, <1>3, <1>6, <1>8 DEF Settled, Keyboard
  <1> QED
    BY <1>1, <1>3, <1>6, <1>9 DEF Phase

-----------------------------------------------------------------------------
(* The phases: the answers                                                  *)

(* What is about commands is the same, and so is what waits. *)
LEMMA RandomPhase ==
  ASSUME Types, LineInv, ~crossed, Phase, RandomRecv
  PROVE  Phase'
  <1>1. Arrives("RANDOM", FALSE) /\ "RANDOM" \in Names /\ FALSE \in BOOLEAN
    BY DEF RandomRecv, Names
  <1>2. /\ Others(down') = Others(down) /\ module' = module /\ doing' = doing
        /\ down # <<>> /\ Head(down).cmd = "RANDOM" /\ down' = Tail(down)
    BY <1>1, ArrivesEffect
  <1>3. /\ slot' = NoCmd
        /\ UNCHANGED <<index, delSave, manager, saved, ui, checked>>
    BY DEF RandomRecv
  <1>4. CASE slot = NoCmd
    <2>1. UNCHANGED <<up, awaiting>>
      BY <1>4 DEF RandomRecv
    <2>2. Counting => Counting'
      BY <1>2, <1>3, <1>4, <2>1 DEF Counting
    <2>3. Settled => Settled'
      <3>1. Settled => SettledQueue'
        BY <1>2, <1>3, <1>4, <2>1, Words DEF Settled, SettledQueue
      <3>2. Settled => SettledUp' /\ SettledDown' /\ SettledDoing'
        BY <1>2, <1>3, <1>4, <2>1, Words DEF Settled, SettledUp, SettledDown, SettledDoing
      <3> QED
        BY <1>2, <1>3, <3>1, <3>2 DEF Settled
    <2>4. ~Registered
      <3>1. Registered => Head(down).cmd = "REG"
        BY Tuples DEF Registered, Result
      <3> QED
        BY <1>2, <3>1
    <2>5. ~Keyboard
      BY <1>2 DEF Keyboard, Quiet
    <2>6. Undoing => Undoing'
      BY <1>2, <1>3, <1>4, <2>1 DEF Undoing
    <2>7. Deleted => Deleted'
      BY <1>2, <1>3, <1>4, <2>1 DEF Deleted
    <2>8. Wiping => Wiping'
      BY <1>2, <1>3, <1>4, <2>1 DEF Wiping
    <2> QED
      BY <1>3, <2>2, <2>3, <2>4, <2>5, <2>6, <2>7, <2>8 DEF Phase
  <1>5. CASE slot # NoCmd
    <2>1. up' = Append(up, Command(slot, index)) /\ awaiting' = Started(slot)
      BY <1>5 DEF RandomRecv
    <2>2. slot \in Commands /\ index \in Fingers /\ up \in Seq(UpFrame)
      BY <1>5 DEF Types
    <2>3. /\ Command(slot, index) \in UpFrame /\ Command(slot, index).cmd = slot
          /\ Command(slot, index).arg = index /\ slot # "RANDOM"
      BY <2>2, RandomFrame
    <2>4. Others(up) = {} /\ Others(down) = {}
      BY <1>5 DEF LineInv
    <2>5. Others(up') = {Command(slot, index)} /\ Others(down') = {}
      BY <1>2, <2>1, <2>2, <2>3, <2>4, AppendSeen
    <2>6. /\ awaiting = <<slot>> => awaiting' = <<slot>>
          /\ awaiting = <<>> => awaiting' = <<slot>>
      BY <2>1, StartedShapes
    <2>7. ASSUME Counting PROVE Counting'
      <3>1. slot = "GET_REG_NUM" /\ awaiting' = <<"GET_REG_NUM">>
        BY <1>5, <2>6, <2>7 DEF Counting
      <3> QED
        BY <1>2, <1>3, <2>3, <2>5, <2>7, <3>1, Tuples DEF Counting
    <2>8. ASSUME Settled PROVE Settled'
      <3>1. slot \in Plain /\ awaiting' = <<slot>> /\ (slot \in Timed => awaiting = <<slot>>)
        BY <1>5, <2>6, <2>8 DEF Settled, SettledQueue
      <3>2. /\ slot = "REG" => ui = "adding" /\ index \notin manager.id
            /\ slot = "DELETE_SINGLE" => ui = "manager" /\ doing = None
        BY <2>8, <3>1 DEF Settled, SettledQueue, Timed
      <3>3. SettledQueue'
        BY <1>2, <1>3, <3>1, <3>2, Tuples, Words DEF SettledQueue
      <3>4. SettledUp' /\ SettledDown'
        BY <1>3, <2>3, <2>5, <3>1, <3>2 DEF SettledUp, SettledDown
      <3>5. SettledDoing'
        <4>1. awaiting = <<"CANCEL">> => slot = "CANCEL"
          BY <1>5, <2>8, Tuples DEF Settled, SettledQueue
        <4> QED
          BY <1>2, <1>3, <2>8, <3>1, <4>1 DEF Settled, SettledDoing
      <3> QED
        BY <1>2, <1>3, <2>8, <3>3, <3>4, <3>5 DEF Settled
    <2>9. ~Registered /\ ~Keyboard /\ ~Deleted
      BY <1>5 DEF Registered, Keyboard, Deleted
    <2>10. ASSUME Undoing PROVE Undoing'
      <3>1. slot = "DELETE_SINGLE" /\ awaiting' = <<"DELETE_SINGLE">>
        BY <1>5, <2>6, <2>10 DEF Undoing
      <3> QED
        BY <1>2, <1>3, <2>5, <2>10, <3>1 DEF Undoing
    <2>11. ASSUME Wiping PROVE Wiping'
      <3>1. slot \in {"DELETE_ALL", "GET_CHIP_ID"} /\ awaiting = <<"DELETE_ALL">>
        BY <1>5, <2>11 DEF Wiping
      <3>2. awaiting' \in {<<"DELETE_ALL">>, <<"DELETE_ALL", "GET_CHIP_ID">>}
        BY <2>1, <3>1, StartedShapes
      <3> QED
        BY <1>2, <1>3, <2>3, <2>5, <2>11, <3>1, <3>2 DEF Wiping
    <2> QED
      BY <1>3, <2>7, <2>8, <2>9, <2>10, <2>11 DEF Phase
  <1> QED
    BY <1>4, <1>5

(* An acknowledgement stops the counter of its command. *)
LEMMA AcknowledgedPhase ==
  ASSUME Types, LineInv, ~crossed, Phase, Acknowledged
  PROVE  Phase'
  <1>1. PICK c \in Commands : Arrives(c, TRUE) /\ awaiting' = Without(c)
    BY DEF Acknowledged
  <1>2. c \in Names /\ c # "RANDOM" /\ TRUE \in BOOLEAN
    BY RandomFrame DEF Names
  <1>3. /\ module' = module /\ doing' = doing
        /\ Others(down) = {Head(down)} \cup Others(down')
        /\ Head(down).cmd = c /\ Head(down).ack
    BY <1>1, <1>2, ArrivesEffect
  <1>4. slot = NoCmd /\ Others(up) = {} /\ (\A f \in Others(down') : ~f.ack /\ f.cmd = c)
    BY <1>1, <1>2, ArrivesAlone
  <1>5. UNCHANGED <<slot, index, delSave, manager, saved, ui, up, checked>>
    BY DEF Acknowledged
  <1>6. Head(down) \in Others(down) /\ Others(down') \subseteq Others(down)
    BY <1>3
  <1>7. /\ awaiting = <<>> => awaiting' = <<>>
        /\ \A d : awaiting = <<d>> => awaiting' = IF d = c THEN <<>> ELSE <<d>>
    BY <1>1, WithoutShapes
  <1>8. ASSUME Counting PROVE Counting'
    <2>1. awaiting' = <<>> /\ c = "GET_REG_NUM"
      BY <1>3, <1>6, <1>7, <1>8 DEF Counting
    <2>2. \E f \in Others(down') : ~f.ack
      BY <1>3, <1>6, <1>8 DEF Counting
    <2> QED
      BY <1>3, <1>4, <1>5, <1>6, <1>8, <2>1, <2>2 DEF Counting
  <1>9. ASSUME Settled PROVE Settled'
    <2>1. awaiting' = <<>> \/ (awaiting' = awaiting /\ awaiting # <<c>>)
      BY <1>7, <1>9, Tuples DEF Settled, SettledQueue
    <2>2. SettledQueue'
      BY <1>3, <1>4, <1>5, <1>9, <2>1, Tuples, Words DEF Settled, SettledQueue
    <2>3. SettledUp' /\ SettledDown'
      <3>1. awaiting = <<>> => awaiting' = <<>>
        BY <1>7
      <3> QED
        BY <1>3, <1>4, <1>5, <1>6, <1>9, <3>1 DEF Settled, SettledUp, SettledDown
    <2>4. SettledDoing'
      <3>1. c = "CANCEL" => doing = None
        BY <1>3, <1>6, <1>9 DEF Settled, SettledDown
      <3>2. awaiting = <<"CANCEL">> /\ c # "CANCEL" => awaiting' = awaiting
        BY <1>7
      <3> QED
        BY <1>3, <1>5, <1>9, <3>1, <3>2 DEF Settled, SettledDoing
    <2> QED
      BY <1>3, <1>5, <1>9, <2>2, <2>3, <2>4 DEF Settled
  <1>10. ~Registered
    <2>1. ASSUME Registered PROVE FALSE
      <3>1. PICK i : down = <<Result("REG", TRUE, i)>>
        BY <2>1 DEF Registered
      <3>2. ~Head(down).ack
        BY <3>1, Tuples DEF Result
      <3> QED
        BY <1>3, <3>2
    <2> QED
      BY <2>1
  <1>11. ~Keyboard /\ ~Undoing
    <2>1. Keyboard => Others(down) = {}
      BY QuietEffect DEF Keyboard
    <2> QED
      BY <1>6, <2>1 DEF Undoing
  <1>12. ASSUME Deleted PROVE Deleted'
    <2>1. awaiting' = <<>> /\ c = "DELETE_SINGLE"
      BY <1>3, <1>6, <1>7, <1>12 DEF Deleted
    <2>2. \E f \in Others(down') : ~f.ack
      BY <1>3, <1>12 DEF Deleted
    <2> QED
      BY <1>3, <1>4, <1>5, <1>6, <1>12, <2>1, <2>2 DEF Deleted
  <1>13. ASSUME Wiping PROVE Settled' \/ Wiping'
    <2>1. c \in {"DELETE_ALL", "GET_CHIP_ID"} /\ (c = "DELETE_ALL" => module = {})
      BY <1>3, <1>6, <1>13 DEF Wiping
    <2>2. /\ awaiting' = Remove(awaiting, c)
          /\ "DELETE_ALL" # "GET_CHIP_ID"
      BY <1>1 DEF Without
    <2>0. /\ awaiting = <<"DELETE_ALL">> \/ awaiting = <<"DELETE_ALL", "GET_CHIP_ID">>
          /\ Remove(<<"DELETE_ALL", "GET_CHIP_ID">>, "DELETE_ALL") = <<"GET_CHIP_ID">>
          /\ Remove(<<"DELETE_ALL", "GET_CHIP_ID">>, "GET_CHIP_ID") = <<"DELETE_ALL">>
      <3>1. "DELETE_ALL" # "GET_CHIP_ID"
        OBVIOUS
      <3> QED
        BY <1>13, <3>1, RemoveTwo DEF Wiping
    <2>3. CASE c = "DELETE_ALL"
      <3>1. awaiting' \in {<<>>, <<"GET_CHIP_ID">>}
        BY <2>0, <2>2, <2>3, RemoveOne
      <3>2. SettledQueue'
        BY <1>4, <1>5, <3>1, Tuples, Words DEF SettledQueue, Plain
      <3>3. SettledUp' /\ SettledDown' /\ SettledDoing'
        BY <1>3, <1>4, <1>5, <1>13, <2>3 DEF SettledUp, SettledDown, SettledDoing, Wiping
      <3>4. manager.id = {}
        BY <1>13 DEF Wiping, Empty
      <3> QED
        BY <1>3, <1>5, <1>13, <2>1, <2>3, <3>2, <3>3, <3>4 DEF Settled, Wiping
    <2>4. CASE c = "GET_CHIP_ID"
      <3>1. awaiting' = <<"DELETE_ALL">>
        BY <2>0, <2>2, <2>4, RemoveOne
      <3> QED
        BY <1>3, <1>4, <1>5, <1>6, <1>13, <3>1 DEF Wiping
    <2> QED
      BY <2>1, <2>3, <2>4
  <1> QED
    BY <1>5, <1>8, <1>9, <1>10, <1>11, <1>12, <1>13 DEF Phase

(* A finger is known, or not after eighteen touches. *)
LEMMA RegPhase ==
  ASSUME Types, LineInv, ~crossed, Phase, RegRecv
  PROVE  Phase'
  <1>1. Arrives("REG", FALSE) /\ "REG" \in Names /\ FALSE \in BOOLEAN /\ "REG" # "RANDOM"
    BY DEF RegRecv, Names, Commands, Timed
  <1>2. /\ module' = module /\ doing' = doing /\ Others(down) = {Head(down)} \cup Others(down')
        /\ Head(down).cmd = "REG" /\ ~Head(down).ack /\ down # <<>> /\ down' = Tail(down)
    BY <1>1, ArrivesEffect
  <1>3. slot = NoCmd /\ Others(up) = {} /\ Others(down') = {}
    BY <1>1, ArrivesAlone
  <1>4. UNCHANGED <<delSave, manager, saved, checked>>
    BY DEF RegRecv
  <1>5. Head(down) \in Others(down)
    BY <1>2
  <1>6. ~Counting /\ ~Undoing /\ ~Deleted /\ ~Wiping
    BY <1>2, <1>5 DEF Counting, Undoing, Deleted, Wiping
  <1>7. ~Keyboard
    BY <1>2 DEF Keyboard, Quiet
  <1>8. ASSUME Settled PROVE Settled'
    <2>1. ~Head(down).ok /\ ui = "adding" /\ awaiting = <<>>
      BY <1>2, <1>5, <1>8 DEF Settled, SettledDown
    <2>2. Ask("CANCEL", index, awaiting) /\ ui' = "limit" /\ "CANCEL" \in Commands /\ index \in Fingers
      BY <2>1 DEF RegRecv, Commands, Types
    <2>3. /\ slot' = "CANCEL" /\ awaiting' = <<>> /\ Others(up') = {} /\ Random \in Seen(up')
      BY <1>3, <2>1, <2>2, AskEffect
    <2>4. Randoms'
      BY <2>3, RandomFrame DEF Randoms
    <2>5. "CANCEL" \in Plain /\ "CANCEL" \notin Timed
      BY DEF Plain, Timed
    <2>6. SettledQueue'
      BY <2>3, <2>4, <2>5, Tuples DEF SettledQueue
    <2>7. SettledUp' /\ SettledDown' /\ SettledDoing'
      BY <1>2, <1>3, <1>4, <1>8, <2>3 DEF SettledUp, SettledDown, SettledDoing, Settled
    <2> QED
      BY <1>2, <1>4, <1>8, <2>2, <2>6, <2>7 DEF Settled
  <1>9. ASSUME Registered PROVE Keyboard'
    <2>1. PICK i \in Fingers \ manager.id :
             down = <<Result("REG", TRUE, i)>> /\ module = manager.id \cup {i}
      BY <1>9 DEF Registered
    <2>2. Head(down) = Result("REG", TRUE, i) /\ down' = <<>>
      BY <1>2, <2>1, Tuples
    <2>3. Head(down).ok /\ Head(down).arg = i
      BY <2>2 DEF Result
    <2>4. index' = i /\ ui' = "keyboard" /\ UNCHANGED <<slot, awaiting, up>>
      BY <1>9, <2>3 DEF RegRecv, Registered
    <2> QED
      BY <1>2, <1>4, <1>9, <2>1, <2>2, <2>4 DEF Keyboard, Registered, Quiet
  <1> QED
    BY <1>4, <1>6, <1>7, <1>8, <1>9 DEF Phase


(* The finger that was deleted is not counted. *)
LEMMA HoldingLess ==
  ASSUME NEW s \in SUBSET Fingers, NEW i \in s
  PROVE  Holding(s \ {i}) = IF Holding(s).num <= 1 THEN Empty
                            ELSE [id |-> s \ {i}, num |-> Holding(s).num - 1]
  <1>1. IsFiniteSet(s) /\ IsFiniteSet(s \ {i}) /\ Cardinality(s) \in Nat /\ Cardinality(s \ {i}) \in Nat
    BY FingersFinite
  <1>2. Cardinality(s \ {i}) = Cardinality(s) - 1
    BY <1>1, FS_RemoveElement
  <1>3. CASE Cardinality(s) <= 1
    <2>1. Cardinality(s \ {i}) = 0
      BY <1>1, <1>2, <1>3
    <2>2. s \ {i} = {}
      BY <1>1, <2>1, FS_EmptySet
    <2> QED
      BY <1>3, <2>1, <2>2 DEF Holding, Empty
  <1>4. CASE ~(Cardinality(s) <= 1)
    BY <1>2, <1>4 DEF Holding
  <1> QED
    BY <1>3, <1>4

(* A result that says nothing of the finger that is registered. *)
LEMMA ResultEffect ==
  ASSUME Types, LineInv, ~crossed, NEW c \in Names \ {"RANDOM"}, Arrives(c, FALSE)
  PROVE  /\ module' = module /\ doing' = doing /\ slot = NoCmd
         /\ Others(up) = {} /\ Others(down') = {} /\ Head(down) \in Others(down)
         /\ Head(down).cmd = c /\ ~Head(down).ack
         /\ ~Keyboard /\ ~Undoing
         /\ Registered => c = "REG"
  <1>1. FALSE \in BOOLEAN
    OBVIOUS
  <1>2. /\ module' = module /\ doing' = doing /\ Others(down) = {Head(down)} \cup Others(down')
        /\ Head(down).cmd = c /\ Head(down).ack = FALSE /\ down # <<>>
    BY <1>1, ArrivesEffect
  <1>3. slot = NoCmd /\ Others(up) = {} /\ Others(down') = {}
    BY <1>1, ArrivesAlone
  <1>4. ~Keyboard /\ ~Undoing
    BY <1>2 DEF Keyboard, Undoing, Quiet
  <1>5. Registered => Head(down).cmd = "REG"
    BY Tuples DEF Registered, Result
  <1> QED
    BY <1>2, <1>3, <1>4, <1>5

LEMMA DeleteRecvPhase ==
  ASSUME Types, LineInv, ~crossed, Phase, DeleteRecv
  PROVE  Phase'
  <1>1. Arrives("DELETE_SINGLE", FALSE) /\ "DELETE_SINGLE" \in Names \ {"RANDOM"}
    BY DEF DeleteRecv, Names, Commands, Timed
  <1>2. /\ module' = module /\ doing' = doing /\ slot = NoCmd
        /\ Others(up) = {} /\ Others(down') = {} /\ Head(down) \in Others(down)
        /\ Head(down).cmd = "DELETE_SINGLE" /\ ~Head(down).ack
        /\ ~Keyboard /\ ~Undoing /\ ~Registered
    BY <1>1, ResultEffect
  <1>3. UNCHANGED <<slot, index, awaiting, ui, up, checked>>
    BY DEF DeleteRecv
  <1>4. ~Counting /\ ~Wiping
    BY <1>2 DEF Counting, Wiping
  <1>5. SettledUp' /\ SettledDown'
    BY <1>2, <1>3 DEF SettledUp, SettledDown
  <1>6. ASSUME Settled
        PROVE  Settled' /\ UNCHANGED <<manager, saved>>
    <2>1. ~Head(down).ok
      BY <1>2, <1>6 DEF Settled, SettledDown
    <2>2. UNCHANGED <<delSave, manager, saved>>
      BY <2>1 DEF DeleteRecv
    <2>3. SettledQueue' /\ SettledDoing'
      BY <1>2, <1>3, <1>6, <2>2, Words DEF Settled, SettledQueue, SettledDoing
    <2> QED
      BY <1>2, <1>3, <1>5, <1>6, <2>2, <2>3 DEF Settled
  <1>7. ASSUME Deleted
        PROVE  Settled' /\ saved' = manager' /\ manager' = Holding(manager'.id)
    <2>1. Head(down).ok
      BY <1>2, <1>7 DEF Deleted
    <2>2. SettledQueue' /\ SettledDoing'
      BY <1>2, <1>3, <1>7, Tuples, Words DEF Deleted, SettledQueue, SettledDoing, Plain
    <2>3. saved = manager /\ manager = Holding(manager.id) /\ manager.id \in SUBSET Fingers
      BY DEF Phase, Types, List
    <2>4. CASE delSave
      <3>1. delSave' = FALSE /\ UNCHANGED <<manager, saved>>
        BY <2>1, <2>4 DEF DeleteRecv, Swallowed
      <3> QED
        BY <1>2, <1>3, <1>5, <1>7, <2>2, <2>3, <2>4, <3>1 DEF Settled, Deleted
    <2>5. CASE ~delSave
      <3>1. manager' = WithoutFinger /\ saved' = manager' /\ delSave' = delSave
        BY <2>1, <2>5 DEF DeleteRecv, Swallowed
      <3>2. index \in manager.id /\ module = manager.id \ {index}
        BY <1>7, <2>5 DEF Deleted
      <3>3. manager' = Holding(manager.id \ {index})
        BY <2>3, <3>1, <3>2, HoldingLess DEF WithoutFinger
      <3>4. manager'.id = module /\ manager' = Holding(manager'.id)
        BY <3>2, <3>3 DEF Holding
      <3> QED
        BY <1>2, <1>3, <1>5, <1>7, <2>2, <2>5, <3>1, <3>4 DEF Settled, Deleted
    <2> QED
      BY <2>4, <2>5
  <1> QED
    BY <1>2, <1>3, <1>4, <1>6, <1>7 DEF Phase

(* The list is empty already. *)
LEMMA DeleteAllPhase ==
  ASSUME Types, LineInv, ~crossed, Phase, DeleteAllRecv \/ GetChipId
  PROVE  Phase'
  <1>1. PICK c \in {"DELETE_ALL", "GET_CHIP_ID"} :
           /\ Arrives(c, FALSE) /\ c \in Names \ {"RANDOM"}
           /\ manager' = (IF c = "DELETE_ALL" THEN Empty ELSE manager)
    BY DEF DeleteAllRecv, GetChipId, Names, Commands, Timed
  <1>2. /\ module' = module /\ doing' = doing /\ slot = NoCmd
        /\ Others(up) = {} /\ Others(down') = {} /\ Head(down) \in Others(down)
        /\ Head(down).cmd = c /\ ~Head(down).ack
        /\ ~Keyboard /\ ~Undoing /\ ~Registered
    BY <1>1, ResultEffect
  <1>3. UNCHANGED <<slot, index, awaiting, delSave, saved, ui, up, checked>>
    BY DEF DeleteAllRecv, GetChipId
  <1>4. ~Counting /\ ~Deleted
    BY <1>2 DEF Counting, Deleted
  <1>5. ASSUME Settled PROVE Settled' /\ manager' = manager
    <2>1. manager' = manager
      BY <1>1, <1>2, <1>5 DEF Settled, SettledDown
    <2>2. SettledQueue' /\ SettledDoing'
      BY <1>2, <1>3, <1>5, <2>1, Words DEF Settled, SettledQueue, SettledDoing
    <2>3. SettledUp' /\ SettledDown'
      BY <1>2, <1>3 DEF SettledUp, SettledDown
    <2> QED
      BY <1>2, <1>3, <1>5, <2>1, <2>2, <2>3 DEF Settled
  <1>6. ASSUME Wiping PROVE Wiping' /\ manager' = manager
    <2>1. manager' = manager
      BY <1>1, <1>6 DEF Wiping
    <2> QED
      BY <1>2, <1>3, <1>6, <2>1 DEF Wiping
  <1> QED
    BY <1>2, <1>3, <1>4, <1>5, <1>6 DEF Phase

(* The fingers are counted: of two lists that differ by one operation, the  *)
(* numbers tell whether they are the same.                                  *)
LEMMA SameNumber ==
  ASSUME NEW s \in SUBSET Fingers, NEW t \in SUBSET Fingers,
         s \subseteq t \/ t \subseteq s, Cardinality(s) = Cardinality(t)
  PROVE  s = t
  <1>1. \A a, b \in SUBSET Fingers : a \subseteq b /\ Cardinality(a) = Cardinality(b) => a = b
    BY FingersFinite, FS_Subset
  <1> QED
    BY <1>1

LEMMA NumberPhase ==
  ASSUME Types, LineInv, ~crossed, Phase, GetNumberRecv
  PROVE  Phase'
  <1>1. /\ Arrives("GET_REG_NUM", FALSE) /\ "GET_REG_NUM" \in Names \ {"RANDOM"}
        /\ "GET_REG_NUM" \notin Plain
    BY NumberEffect DEF Names, Commands, Timed, Plain
  <1>2. /\ module' = module /\ doing' = doing /\ slot = NoCmd
        /\ Others(up) = {} /\ Others(down') = {} /\ Head(down) \in Others(down)
        /\ Head(down).cmd = "GET_REG_NUM" /\ ~Head(down).ack
        /\ ~Keyboard /\ ~Undoing /\ ~Registered
    BY <1>1, ResultEffect
  <1>3. ~Settled /\ ~Deleted /\ ~Wiping
    BY <1>1, <1>2 DEF Settled, SettledDown, Deleted, Wiping
  <1>4. Counting
    BY <1>2, <1>3 DEF Phase
  <1>5. Head(down).arg = Cardinality(module) /\ Without("GET_REG_NUM") = <<>>
    BY <1>2, <1>4, WithoutShapes DEF Counting
  <1>6. /\ UNCHANGED <<delSave, ui>> /\ checked' = TRUE /\ Others(up') = {}
        /\ (slot' \in {"DELETE_ALL", "GET_CHIP_ID"} /\ Random \in Seen(up')) \/ slot' = slot
    BY <1>2, NumberEffect
  <1>7. CASE Head(down).arg # manager.num
    <2>1. /\ manager' = Empty /\ saved' = Empty /\ awaiting' = DeleteAllCounted(<<>>)
          /\ slot' \in {"DELETE_ALL", "GET_CHIP_ID"}
      BY <1>5, <1>7, NumberEffect
    <2>2. awaiting' = <<"DELETE_ALL">>
      BY <2>1, RemoveEmpty, Tuples DEF DeleteAllCounted
    <2>3. Wiping'
      BY <1>2, <1>4, <1>6, <2>1, <2>2 DEF Wiping, Counting
    <2>4. manager' = Holding(manager'.id)
      BY <2>1, FS_EmptySet DEF Holding, Empty
    <2> QED
      BY <1>6, <2>1, <2>3, <2>4 DEF Phase
  <1>8. CASE Head(down).arg = manager.num
    <2>1. /\ UNCHANGED <<manager, saved, index>> /\ awaiting' = <<>>
          /\ slot' = NoCmd \/ (slot' = "GET_CHIP_ID" /\ Random \in Seen(up'))
      BY <1>2, <1>5, <1>6, <1>8, NumberEffect
    <2>2. manager.id = module
      <3>1. Cardinality(manager.id) = Cardinality(module)
        BY <1>5, <1>8 DEF Phase, Holding
      <3> QED
        BY <1>4, <3>1, SameNumber DEF Counting, Types, List
    <2>3. slot' # NoCmd => Randoms'
      BY <2>1, RandomFrame DEF Randoms
    <2>4. SettledQueue'
      BY <2>1, <2>3, Tuples, Words DEF SettledQueue, Plain, Timed
    <2>5. SettledUp' /\ SettledDown' /\ SettledDoing'
      BY <1>2, <1>4, <1>6 DEF SettledUp, SettledDown, SettledDoing, Counting
    <2>6. Settled'
      BY <1>2, <1>4, <1>6, <2>1, <2>2, <2>4, <2>5 DEF Settled, Counting
    <2> QED
      BY <1>6, <2>1, <2>6 DEF Phase
  <1> QED
    BY <1>7, <1>8

-----------------------------------------------------------------------------
(* The phases: the timer, the module, the line and the power                *)

LEMMA TimeoutPhase ==
  ASSUME Types, LineInv, ~crossed, Phase, FpTimeoutHandle
  PROVE  Phase'
  <1>1. /\ awaiting # <<>>
        /\ up = <<>> /\ down = <<>> /\ Head(awaiting) \in Commands /\ 1 \in Fingers /\ index \in Fingers
        /\ UNCHANGED <<delSave, manager, saved, ui, down, module, doing, checked>>
    BY DEF FpTimeoutHandle, Types, Fingers
  <1>2. PICK c \in Commands, i \in Fingers :
           c = Head(awaiting) /\ Ask(c, i, <<c>>) /\ (c # "DELETE_ALL" => i = index)
    BY <1>1 DEF FpTimeoutHandle, CountersAfter
  <1>3. Others(up) = {} /\ Others(down) = {}
    BY <1>1, OthersEmpty
  <1>4. /\ slot' = c /\ awaiting' = <<c>> /\ index' = i
        /\ Others(up') = {} /\ Others(down') = {} /\ c # NoCmd
    BY <1>1, <1>2, <1>3, AskEffect, RandomFrame
  <1>5. \A d : awaiting = <<d>> => c = d
    BY <1>2, Tuples
  <1>6. ASSUME Counting PROVE Counting'
    <2>1. c = "GET_REG_NUM"
      BY <1>1, <1>5, <1>6 DEF Counting
    <2> QED
      BY <1>1, <1>4, <1>6, <2>1, Tuples DEF Counting
  <1>7. ASSUME Settled PROVE Settled'
    <2>1. c \in Plain /\ awaiting = <<c>> /\ c # "DELETE_ALL"
      BY <1>1, <1>5, <1>7 DEF Settled, SettledQueue, Plain
    <2>2. index' = index /\ awaiting' = awaiting
      BY <1>2, <1>4, <2>1
    <2>3. SettledQueue'
      BY <1>1, <1>4, <1>7, <2>1, <2>2 DEF Settled, SettledQueue
    <2>4. SettledUp' /\ SettledDown'
      BY <1>4 DEF SettledUp, SettledDown
    <2>5. SettledDoing'
      <3>1. slot = "CANCEL" => awaiting = <<"CANCEL">>
        BY <1>1, <1>7, Words DEF Settled, SettledQueue
      <3> QED
        BY <1>1, <1>7, <2>2, <3>1 DEF Settled, SettledDoing
    <2> QED
      BY <1>1, <1>7, <2>3, <2>4, <2>5 DEF Settled
  <1>8. ~Registered /\ ~Keyboard /\ ~Deleted
    BY <1>1, <1>3 DEF Registered, Keyboard, Deleted, Quiet
  <1>9. ASSUME Undoing PROVE Undoing'
    <2>1. c = "DELETE_SINGLE" /\ index' = index
      BY <1>2, <1>4, <1>5, <1>9 DEF Undoing
    <2> QED
      BY <1>1, <1>4, <1>9, <2>1 DEF Undoing
  <1>10. ASSUME Wiping PROVE Wiping'
    <2>1. c = "DELETE_ALL"
      BY <1>2, <1>10, Tuples DEF Wiping
    <2> QED
      BY <1>1, <1>4, <1>10, <2>1 DEF Wiping
  <1> QED
    BY <1>1, <1>6, <1>7, <1>8, <1>9, <1>10 DEF Phase

(* What the module, with these fingers known, says to a command. *)
DoesSay(frames, c, i, known) ==
    \E a, r : /\ frames = {a, r} /\ a.cmd = c /\ a.ack /\ r.cmd = c /\ ~r.ack
              /\ c = "DELETE_SINGLE" => (r.ok <=> i \in known)
              /\ c = "GET_REG_NUM" => r.arg = Cardinality(known)

LEMMA AnswerShapes ==
  ASSUME NEW c \in Names, NEW i \in Fingers
  PROVE  /\ c = "RANDOM" => \E r \in Seen(Answers(c, i)) : r.cmd = c
         /\ c \in {"REG", "CANCEL"} =>
               \E a : Others(Answers(c, i)) = {a} /\ a.cmd = c /\ a.ack
         /\ c \notin {"RANDOM", "REG", "CANCEL"} =>
               DoesSay(Others(Answers(c, i)), c, i, module)
  <1>1. \A a, r : Seen(<<a, r>>) = {a, r}
    <2> TAKE a, r
    <2>1. DOMAIN <<a, r>> = {1, 2} /\ <<a, r>>[1] = a /\ <<a, r>>[2] = r
      OBVIOUS
    <2> QED
      BY <2>1 DEF Seen
  <1>2. Ack(c).cmd = c /\ Ack(c).ack
    BY DEF Ack
  <1>3. \A ok, n : /\ Result(c, ok, n).cmd = c /\ ~Result(c, ok, n).ack
                   /\ Result(c, ok, n).ok = ok /\ Result(c, ok, n).arg = n
    BY DEF Result
  <1>4. CASE c = "RANDOM"
    <2>1. Answers(c, i) = <<Result(c, TRUE, 0)>>
      BY <1>4 DEF Answers
    <2>2. Result(c, TRUE, 0) \in Seen(Answers(c, i))
      BY <2>1, OneSeen
    <2> QED
      BY <1>3, <1>4, <2>2
  <1>5. CASE c \in {"REG", "CANCEL"}
    <2>1. Answers(c, i) = <<Ack(c)>>
      BY <1>5 DEF Answers
    <2>2. Others(<<Ack(c)>>) = {Ack(c)}
      BY <1>2, <1>5, OneSeen DEF Others
    <2> QED
      BY <1>2, <1>5, <2>1, <2>2
  <1>6. CASE c \notin {"RANDOM", "REG", "CANCEL"}
    <2>1. PICK ok, n : /\ Answers(c, i) = <<Ack(c), Result(c, ok, n)>>
                       /\ c = "DELETE_SINGLE" => ok = (i \in module)
                       /\ c = "GET_REG_NUM" => n = Cardinality(module)
      <3>1. CASE c = "DELETE_SINGLE"
        <4>1. Answers(c, i) = <<Ack(c), Result(c, i \in module, 0)>>
          BY <3>1 DEF Answers
        <4> QED
          BY <3>1, <4>1, Zenon
      <3>2. CASE c = "GET_REG_NUM"
        <4>1. Answers(c, i) = <<Ack(c), Result(c, TRUE, Cardinality(module))>>
          BY <3>2 DEF Answers
        <4> QED
          BY <3>2, <4>1
      <3>3. CASE c \notin {"DELETE_SINGLE", "GET_REG_NUM"}
        <4>1. Answers(c, i) = <<Ack(c), Result(c, TRUE, 0)>>
          BY <1>6, <3>3 DEF Answers
        <4> QED
          BY <3>3, <4>1
      <3> QED
        BY <3>1, <3>2, <3>3
    <2>2. PICK a, r : /\ a = Ack(c) /\ r = Result(c, ok, n) /\ a.cmd = c /\ a.ack
                      /\ r.cmd = c /\ ~r.ack /\ r.ok = ok /\ r.arg = n
      BY <1>2, <1>3
    <2>3. Seen(Answers(c, i)) = {a, r}
      BY <1>1, <2>1, <2>2
    <2>4. Others(Answers(c, i)) = {a, r}
      BY <1>6, <2>2, <2>3 DEF Others
    <2> QED
      BY <1>6, <2>1, <2>2, <2>4 DEF DoesSay
  <1> QED
    BY <1>4, <1>5, <1>6

(* A random number: what waits for it may go. *)
LEMMA RandomAnswerPhase ==
  ASSUME Types, LineInv, ~crossed, Phase, Answer, Head(up).cmd = "RANDOM"
  PROVE  Phase'
  <1>1. PICK c \in Names, i \in Fingers : c = "RANDOM" /\ down' = down \o Answers(c, i)
    BY AnswerEffect
  <1>2. module \in SUBSET Fingers /\ down \in Seq(DownFrame)
    BY DEF Types
  <1>3. /\ Others(up') = Others(up) /\ up # <<>>
        /\ UNCHANGED <<ram, saved, ui, checked, crossed, missing>>
    BY AnswerEffect
  <1>4. UNCHANGED <<slot, index, awaiting, delSave, manager, chip>>
    BY <1>3
  <1>5. UNCHANGED <<module, doing>>
    BY DEF Answer
  <1>6. /\ Others(down') = Others(down) \cup Others(Answers(c, i))
        /\ Others(Answers(c, i)) = {}
        /\ Seen(down') = Seen(down) \cup Seen(Answers(c, i))
    BY <1>1, <1>2, AnswersSeen
  <1>7. Randoms'
    <2>1. \E r \in Seen(down') : r.cmd = "RANDOM"
      BY <1>1, <1>6, AnswerShapes
    <2> QED
      BY <2>1 DEF Randoms
  <1>8. Counting => Counting'
    BY <1>3, <1>4, <1>5, <1>6 DEF Counting
  <1>9. ASSUME Settled PROVE Settled'
    <2>1. SettledQueue'
      BY <1>3, <1>4, <1>5, <1>7, <1>9 DEF Settled, SettledQueue
    <2>2. SettledUp' /\ SettledDown' /\ SettledDoing'
      BY <1>3, <1>4, <1>5, <1>6, <1>9 DEF Settled, SettledUp, SettledDown, SettledDoing
    <2> QED
      BY <1>3, <1>4, <1>5, <1>9, <2>1, <2>2 DEF Settled
  <1>10. ~Registered /\ ~Keyboard
    BY <1>3 DEF Registered, Keyboard, Quiet
  <1>11. Undoing => Undoing'
    BY <1>3, <1>4, <1>5, <1>6 DEF Undoing
  <1>12. Deleted => Deleted'
    BY <1>3, <1>4, <1>5, <1>6 DEF Deleted
  <1>13. Wiping => Wiping'
    BY <1>3, <1>4, <1>5, <1>6 DEF Wiping
  <1> QED
    BY <1>3, <1>4, <1>8, <1>9, <1>10, <1>11, <1>12, <1>13 DEF Phase

(* A command: the module does it and says so. *)
LEMMA CommandAnswerPhase ==
  ASSUME Types, LineInv, ~crossed, Phase, Answer, Head(up).cmd # "RANDOM"
  PROVE  Phase'
  <1>1. PICK f \in UpFrame, c \in Names, i \in Fingers :
           /\ f = Head(up) /\ c = f.cmd /\ i = f.arg
           /\ down' = down \o Answers(c, i)
    BY AnswerEffect
  <1>2. c # "RANDOM" /\ module \in SUBSET Fingers /\ down \in Seq(DownFrame) /\ up \in Seq(UpFrame)
    BY <1>1 DEF Types
  <1>3. Others(up) = {f} \cup Others(up') /\ up' = Tail(up) /\ up # <<>>
    BY <1>1, <1>2, AnswerEffect
  <1>4. UNCHANGED <<slot, index, awaiting, delSave, manager, chip, saved, ui, checked>>
    BY AnswerEffect
  <1>5. Others(up') = {} /\ Others(down) = {}
    BY <1>1, <1>2, <1>3, TailAlone DEF LineInv
  <1>6. slot = NoCmd
    BY <1>3 DEF LineInv
  <1>7. f \in Others(up) /\ Others(down') = Others(Answers(c, i))
    <2>1. Others(down') = Others(down) \cup Others(Answers(c, i))
      BY <1>1, <1>2, AnswersSeen
    <2> QED
      BY <1>3, <1>5, <2>1
  <1>8. /\ module' = CASE c = "DELETE_SINGLE" -> module \ {i}
                       [] c = "DELETE_ALL" -> {}
                       [] OTHER -> module
        /\ doing' = CASE c = "REG" -> i [] c = "CANCEL" -> None [] OTHER -> doing
    BY <1>1 DEF Answer
  <1>0. c \notin {"REG", "CANCEL"} => DoesSay(Others(down'), c, i, module)
    BY <1>2, <1>7, AnswerShapes
  <1>9. ~Registered /\ ~Keyboard /\ ~Deleted
    BY <1>3, <1>7 DEF Registered, Keyboard, Deleted, Quiet
  <1>10. ASSUME Counting PROVE Counting'
    <2>1. c = "GET_REG_NUM"
      BY <1>1, <1>7, <1>10 DEF Counting
    <2>2. module' = module /\ doing' = doing
      BY <1>8, <2>1
    <2>3. PICK a, r : /\ Others(down') = {a, r} /\ a.cmd = c /\ a.ack /\ r.cmd = c /\ ~r.ack
                      /\ r.arg = Cardinality(module)
      BY <1>0, <2>1 DEF DoesSay
    <2> QED
      BY <1>4, <1>5, <1>6, <1>10, <2>1, <2>2, <2>3 DEF Counting
  <1>11. ASSUME Settled PROVE Settled' \/ Deleted'
    <2>1. /\ c \in Plain /\ awaiting = <<c>>
          /\ c = "DELETE_SINGLE" => i = index
          /\ c = "REG" => i \notin manager.id
      BY <1>1, <1>7, <1>11 DEF Settled, SettledUp
    <2>2. SettledUp'
      BY <1>5 DEF SettledUp
    <2>3. /\ c = "REG" => ui = "adding"
          /\ c = "DELETE_SINGLE" => ui = "manager" /\ doing = None
      BY <1>11, <2>1 DEF Settled, SettledQueue
    <2>4. CASE c # "DELETE_SINGLE"
      <3>1. module' = module
        BY <1>8, <2>1, <2>4 DEF Plain
      <3>2. SettledQueue'
        BY <1>4, <1>6, <1>11, <2>1, <2>4, Tuples, Words DEF Settled, SettledQueue
      <3>3. SettledDown'
        <4>1. CASE c \in {"REG", "CANCEL"}
          <5>1. PICK a : Others(down') = {a} /\ a.cmd = c /\ a.ack
            BY <1>7, <4>1, AnswerShapes
          <5>2. c = "CANCEL" => doing' = None
            BY <1>8
          <5> QED
            BY <2>1, <4>1, <5>1, <5>2 DEF SettledDown
        <4>2. CASE c = "GET_CHIP_ID"
          <5>1. PICK a, r : Others(down') = {a, r} /\ a.cmd = c /\ r.cmd = c
            BY <1>0, <4>2 DEF DoesSay
          <5> QED
            BY <2>1, <4>2, <5>1 DEF SettledDown
        <4> QED
          BY <2>1, <2>4, <4>1, <4>2 DEF Plain
      <3>4. SettledDoing'
        <4>1. CASE c = "REG"
          BY <1>4, <1>8, <2>1, <2>3, <4>1 DEF SettledDoing
        <4>2. CASE c = "CANCEL"
          BY <1>8, <4>2 DEF SettledDoing
        <4>3. CASE c = "GET_CHIP_ID"
          BY <1>4, <1>8, <1>11, <4>3 DEF Settled, SettledDoing
        <4> QED
          BY <2>1, <2>4, <4>1, <4>2, <4>3 DEF Plain
      <3> QED
        BY <1>4, <1>11, <2>2, <3>1, <3>2, <3>3, <3>4 DEF Settled
    <2>5. CASE c = "DELETE_SINGLE"
      <3>1. PICK a, r : /\ Others(down') = {a, r} /\ a.cmd = c /\ a.ack /\ r.cmd = c /\ ~r.ack
                        /\ (r.ok <=> i \in module)
        BY <1>0, <2>5 DEF DoesSay
      <3>0. module' = module \ {i} /\ doing' = doing
        BY <1>8, <2>5
      <3>2. CASE i \in module
        <4>1. \E g \in Others(down') : ~g.ack
          BY <3>1
        <4>2. \A g \in Others(down') : g.cmd = "DELETE_SINGLE" /\ (g.ack \/ g.ok)
          BY <2>5, <3>1, <3>2
        <4>3. index \in manager.id /\ module' = manager.id \ {index} /\ ~delSave
          BY <1>11, <2>1, <2>5, <3>0, <3>2 DEF Settled
        <4> QED
          BY <1>4, <1>5, <1>6, <2>1, <2>3, <2>5, <3>0, <4>1, <4>2, <4>3 DEF Deleted
      <3>3. CASE i \notin module
        <4>1. module' = module
          BY <3>0, <3>3
        <4>2. SettledDown'
          BY <2>1, <2>5, <3>1, <3>3 DEF SettledDown
        <4>3. SettledQueue' /\ SettledDoing'
          BY <1>4, <1>6, <1>11, <3>0, <4>1, Words DEF Settled, SettledQueue, SettledDoing
        <4> QED
          BY <1>4, <1>11, <2>2, <4>1, <4>2, <4>3 DEF Settled
      <3> QED
        BY <3>2, <3>3
    <2> QED
      BY <2>4, <2>5
  <1>12. ASSUME Undoing PROVE Deleted'
    <2>1. c = "DELETE_SINGLE" /\ i = index
      <3>1. f = Command("DELETE_SINGLE", index)
        BY <1>7, <1>12 DEF Undoing
      <3> QED
        BY <1>1, <3>1 DEF Command
    <2>2. i \in module
      BY <1>12, <2>1 DEF Undoing
    <2>3. PICK a, r : /\ Others(down') = {a, r} /\ a.cmd = c /\ a.ack /\ r.cmd = c /\ ~r.ack
                      /\ (r.ok <=> i \in module)
      BY <1>0, <2>1 DEF DoesSay
    <2>0. module' = module \ {i} /\ doing' = doing
      BY <1>8, <2>1
    <2>4. \E g \in Others(down') : ~g.ack
      BY <2>3
    <2>5. \A g \in Others(down') : g.cmd = "DELETE_SINGLE" /\ (g.ack \/ g.ok)
      BY <2>1, <2>2, <2>3
    <2>6. module' = manager.id
      BY <1>12, <2>1, <2>0 DEF Undoing
    <2> QED
      BY <1>4, <1>5, <1>6, <1>12, <2>0, <2>4, <2>5, <2>6 DEF Undoing, Deleted
  <1>13. ASSUME Wiping PROVE Wiping'
    <2>1. c \in {"DELETE_ALL", "GET_CHIP_ID"}
      BY <1>1, <1>7, <1>13 DEF Wiping
    <2>2. doing' = doing /\ (c = "DELETE_ALL" => module' = {})
      BY <1>8, <2>1
    <2>3. PICK a, r : Others(down') = {a, r} /\ a.cmd = c /\ r.cmd = c
      BY <1>0, <2>1 DEF DoesSay
    <2> QED
      BY <1>4, <1>5, <1>6, <1>13, <2>1, <2>2, <2>3 DEF Wiping
  <1> QED
    BY <1>4, <1>9, <1>10, <1>11, <1>12, <1>13 DEF Phase

(* The finger is known, or has been touched too often. *)
LEMMA TouchPhase ==
  ASSUME Types, LineInv, NEW good \in BOOLEAN, Touch(good), Phase, ~crossed'
  PROVE  Phase'
  <1>1. PICK i \in Fingers : i = doing
    BY TouchEffect
  <1>2. PICK f \in DownFrame :
           f = Result("REG", good, i) /\ f.cmd = "REG" /\ ~f.ack /\ down' = Append(down, f)
    BY <1>1, TouchEffect
  <1>3. UNCHANGED <<slot, index, awaiting, delSave, manager, saved, ui, up, checked>>
    BY TouchEffect
  <1>4. ui = "adding" /\ Quiet
    BY TouchEffect
  <1>5. checked /\ slot = NoCmd /\ Settled
    BY <1>4, QuietPhase DEF Keyboard
  <1>6. i \notin manager.id /\ module = manager.id /\ ~delSave
    <2>1. i # None
      BY DEF Fingers, None
    <2> QED
      BY <1>1, <1>5, <2>1 DEF Settled, SettledDoing
  <1>7. awaiting = <<>> /\ up = <<>> /\ down' = <<f>> /\ Others(up) = {} /\ Others(down') = {f}
    <2>1. down' = <<f>>
      BY <1>2, <1>4, Tuples DEF Quiet
    <2>2. Others(<<f>>) = {f}
      BY <1>2, OneSeen DEF Others
    <2> QED
      BY <1>4, <2>1, <2>2, QuietEffect
  <1>8. CASE good
    <2>1. module' = manager.id \cup {i} /\ doing' = None
      BY <1>1, <1>6, <1>8, TouchEffect
    <2>2. f = Result("REG", TRUE, i)
      BY <1>2, <1>8
    <2>3. Registered'
      BY <1>3, <1>4, <1>5, <1>6, <1>7, <2>1, <2>2 DEF Registered
    <2> QED
      BY <1>3, <1>5, <2>3 DEF Phase
  <1>9. CASE ~good
    <2>1. UNCHANGED <<module, doing>>
      BY <1>9, TouchEffect
    <2>2. ~f.ok
      BY <1>2, <1>9 DEF Result
    <2>3. SettledQueue' /\ SettledDoing'
      BY <1>3, <1>5, <2>1, Words DEF Settled, SettledQueue, SettledDoing
    <2>4. SettledUp' /\ SettledDown'
      BY <1>2, <1>3, <1>4, <1>7, <2>2 DEF SettledUp, SettledDown, Plain
    <2> QED
      BY <1>3, <1>5, <2>1, <2>3, <2>4 DEF Settled, Phase
  <1> QED
    BY <1>8, <1>9

(* A frame is lost that will be given again. *)
LEMMA LoseEffect ==
  ASSUME Types, LineInv, ~crossed, Lose, ~missing'
  PROVE  /\ Others(up') \subseteq Others(up) /\ Others(down') \subseteq Others(down)
         /\ \A f \in Others(down) : ~f.ack => f \in Others(down')
         /\ slot \notin {"CANCEL", "GET_CHIP_ID"}
         /\ up # <<>> \/ (down # <<>> /\ (Head(down).cmd # "RANDOM" => Head(down).ack))
  <1>1. up \in Seq(UpFrame) /\ down \in Seq(DownFrame)
    BY DEF Types
  <1>2. CASE /\ up # <<>> /\ up' = Tail(up) /\ UNCHANGED down
             /\ missing' = (missing \/ Unrepeated(Head(up)))
    <2>1. /\ Others(Tail(up)) \subseteq Others(up)
          /\ Head(up).cmd # "RANDOM" => Others(up) # {}
      BY <1>1, <1>2, TailSeen
    <2>2. ~Unrepeated(Head(up))
      BY <1>2
    <2>3. Head(up).cmd = "RANDOM" => slot \notin {"CANCEL", "GET_CHIP_ID"}
      BY <2>2 DEF Unrepeated
    <2>4. Head(up).cmd # "RANDOM" => slot = NoCmd
      BY <2>1 DEF LineInv
    <2> QED
      BY <1>2, <2>1, <2>3, <2>4, Words
  <1>3. CASE /\ down # <<>> /\ down' = Tail(down) /\ UNCHANGED up
             /\ missing' = (missing \/ Unrepeated(Head(down)))
    <2>1. /\ Head(down) \in DownFrame /\ Others(Tail(down)) \subseteq Others(down)
          /\ Head(down).cmd = "RANDOM" => Others(Tail(down)) = Others(down)
          /\ Head(down).cmd # "RANDOM" => Others(down) = {Head(down)} \cup Others(Tail(down))
      BY <1>1, <1>3, TailSeen
    <2>2. ~Unrepeated(Head(down)) /\ "ack" \in DOMAIN Head(down)
      BY <1>3, <2>1 DEF DownFrame
    <2>3. Head(down).cmd = "RANDOM" => slot \notin {"CANCEL", "GET_CHIP_ID"}
      BY <2>2 DEF Unrepeated
    <2>4. Head(down).cmd # "RANDOM" => slot = NoCmd /\ Head(down).ack
      BY <2>1, <2>2 DEF LineInv, Unrepeated
    <2> QED
      BY <1>3, <2>1, <2>3, <2>4, Words
  <1> QED
    BY <1>2, <1>3 DEF Lose

LEMMA LosePhase ==
  ASSUME Types, LineInv, ~crossed, Phase, Lose, ~missing'
  PROVE  Phase'
  <1>1. UNCHANGED <<slot, index, awaiting, delSave, manager, saved, ui, module, doing, checked>>
    BY DEF Lose
  <1>2. /\ Others(up') \subseteq Others(up) /\ Others(down') \subseteq Others(down)
        /\ \A f \in Others(down) : ~f.ack => f \in Others(down')
        /\ slot \notin {"CANCEL", "GET_CHIP_ID"}
        /\ up # <<>> \/ (down # <<>> /\ (Head(down).cmd # "RANDOM" => Head(down).ack))
    BY LoseEffect
  <1>3. ASSUME Counting PROVE Counting'
    BY <1>1, <1>2, <1>3 DEF Counting
  <1>4. ASSUME Settled PROVE Settled'
    <2>1. slot # NoCmd => slot \in Timed
      BY <1>2, <1>4 DEF Settled, SettledQueue, Plain, Timed
    <2>2. SettledQueue'
      BY <1>1, <1>4, <2>1 DEF Settled, SettledQueue
    <2>3. SettledUp' /\ SettledDown' /\ SettledDoing'
      BY <1>1, <1>2, <1>4 DEF Settled, SettledUp, SettledDown, SettledDoing
    <2> QED
      BY <1>1, <1>4, <2>2, <2>3 DEF Settled
  <1>5. ~Registered
    <2>1. ASSUME Registered PROVE FALSE
      <3>1. PICK i : down = <<Result("REG", TRUE, i)>> /\ up = <<>>
        BY <2>1 DEF Registered
      <3>2. Head(down) = Result("REG", TRUE, i)
        BY <3>1, Tuples
      <3>3. Head(down).cmd # "RANDOM" /\ ~Head(down).ack
        BY <3>2 DEF Result
      <3> QED
        BY <1>2, <3>1, <3>3
    <2> QED
      BY <2>1
  <1>6. ~Keyboard
    BY <1>2 DEF Keyboard, Quiet
  <1>7. ASSUME Undoing PROVE Undoing'
    BY <1>1, <1>2, <1>7 DEF Undoing
  <1>8. ASSUME Deleted PROVE Deleted'
    <2>1. \E f \in Others(down') : ~f.ack
      BY <1>2, <1>8 DEF Deleted
    <2> QED
      BY <1>1, <1>2, <1>8, <2>1 DEF Deleted
  <1>9. ASSUME Wiping PROVE Wiping'
    BY <1>1, <1>2, <1>9 DEF Wiping
  <1> QED
    BY <1>1, <1>3, <1>4, <1>5, <1>6, <1>7, <1>8, <1>9 DEF Phase

(* Wherever the power fails, the list and the module differ by what one     *)
(* operation had not finished.                                              *)
LEMMA RebootPhase ==
  ASSUME Types, LineInv, Phase, Reboot
  PROVE  Phase'
  <1>1. /\ up' = <<Random>> /\ down' = <<>> /\ slot' = "GET_REG_NUM" /\ doing' = None
        /\ awaiting' = <<"GET_REG_NUM">> /\ ui' = "manager" /\ delSave' = FALSE
        /\ manager' = saved /\ checked' = FALSE /\ UNCHANGED <<saved, module>>
    BY DEF Reboot
  <1>2. saved = manager /\ manager = Holding(manager.id)
    BY DEF Phase
  <1>3. manager.id \subseteq module \/ module \subseteq manager.id
    <2>1. Counting \/ Settled \/ Registered \/ Keyboard \/ Undoing \/ Deleted =>
             manager.id \subseteq module \/ module \subseteq manager.id
      BY DEF Counting, Settled, Registered, Keyboard, Undoing, Deleted
    <2>2. Wiping => manager.id \subseteq module
      BY DEF Wiping, Empty
    <2> QED
      BY <2>1, <2>2 DEF Phase
  <1>4. Others(up') = {} /\ Others(down') = {}
    BY <1>1, BootLine
  <1>5. Counting'
    BY <1>1, <1>2, <1>3, <1>4, Tuples DEF Counting
  <1> QED
    BY <1>1, <1>2, <1>5 DEF Phase

-----------------------------------------------------------------------------
LEMMA InitPhase == Init => PhaseInv
  <1> SUFFICES ASSUME Init PROVE Phase
    BY DEF PhaseInv
  <1>1. Others(up) = {} /\ Others(down) = {}
    BY BootLine DEF Init
  <1>2. manager = Holding(manager.id) /\ manager.id = module
    BY DEF Init, Holding
  <1>3. Counting
    BY <1>1, <1>2, Tuples DEF Init, Counting
  <1> QED
    BY <1>2, <1>3 DEF Init, Phase

(* The histories do not forget. *)
LEMMA Remembered ==
  ASSUME Types, [Next]_vars
  PROVE  (crossed => crossed') /\ (missing => missing')
  <1>1. /\ Add \/ Cancel \/ CancelRegister => crossed' = (crossed \/ ~Quiet) /\ missing' = missing
        /\ (\E i \in Fingers : Delete(i)) => crossed' = (crossed \/ ~Quiet) /\ missing' = missing
    BY DEF Add, Cancel, CancelRegister, Delete, User
  <1>2. /\ PasswordRight => crossed' = (crossed \/ ~Quiet) /\ missing' = missing
        /\ Leave => crossed' = TRUE /\ missing' = missing
    BY DEF PasswordRight, Leave
  <1>3. Receive => UNCHANGED <<crossed, missing>>
    <2>1. RandomRecv \/ Acknowledged \/ RegRecv => UNCHANGED <<crossed, missing>>
      BY DEF RandomRecv, Acknowledged, RegRecv
    <2>2. DeleteRecv \/ DeleteAllRecv \/ GetChipId \/ GetNumberRecv => UNCHANGED <<crossed, missing>>
      BY DEF DeleteRecv, DeleteAllRecv, GetChipId, GetNumberRecv
    <2> QED
      BY <2>1, <2>2 DEF Receive
  <1>4. FpTimeoutHandle \/ Answer \/ Reboot => UNCHANGED <<crossed, missing>>
    BY DEF FpTimeoutHandle, Answer, Reboot
  <1>5. \A good \in BOOLEAN : Touch(good) =>
           crossed' = (crossed \/ ui # "adding" \/ ~Quiet) /\ missing' = missing
    BY DEF Touch
  <1>6. Lose => crossed' = crossed /\ \E b : missing' = (missing \/ b)
    BY DEF Lose
  <1>7. Rest \/ UNCHANGED vars => UNCHANGED <<crossed, missing>>
    BY DEF Rest, vars
  <1>8. crossed \in BOOLEAN /\ missing \in BOOLEAN
    BY DEF Types, Flags
  <1>9. CASE \/ Add \/ Cancel \/ Leave \/ CancelRegister \/ PasswordRight
             \/ \E i \in Fingers : Delete(i)
    BY <1>1, <1>2, <1>8, <1>9
  <1>10. CASE Receive \/ FpTimeoutHandle \/ Answer \/ Reboot \/ Rest \/ UNCHANGED vars
    BY <1>3, <1>4, <1>7, <1>10
  <1>11. CASE Lose \/ \E good \in BOOLEAN : Touch(good)
    BY <1>5, <1>6, <1>8, <1>11
  <1> QED
    BY <1>9, <1>10, <1>11 DEF Next

LEMMA SamePhase == Phase /\ UNCHANGED vars => Phase'
  <1> SUFFICES ASSUME Phase, UNCHANGED vars PROVE Phase'
    OBVIOUS
  <1>1. UNCHANGED <<slot, index, awaiting, delSave, manager, saved, ui, up, down, module, doing, checked>>
    BY DEF vars
  <1>2. Counting => Counting'
    BY <1>1 DEF Counting
  <1>3. Settled => Settled'
    BY <1>1 DEF Settled, SettledQueue, SettledUp, SettledDown, SettledDoing, Randoms
  <1>4. (Registered => Registered') /\ (Keyboard => Keyboard')
    BY <1>1 DEF Registered, Keyboard, Quiet
  <1>5. (Undoing => Undoing') /\ (Deleted => Deleted') /\ (Wiping => Wiping')
    BY <1>1 DEF Undoing, Deleted, Wiping
  <1> QED
    BY <1>1, <1>2, <1>3, <1>4, <1>5 DEF Phase

LEMMA PhaseStep == Types /\ LineInv /\ PhaseInv /\ [Next]_vars => PhaseInv'
  <1> SUFFICES ASSUME Types, LineInv, PhaseInv, [Next]_vars, ~crossed', ~missing' PROVE Phase'
    BY DEF PhaseInv
  <1>0. ~crossed /\ ~missing /\ Phase
    BY Remembered DEF PhaseInv
  <1>1. CASE Add \/ Cancel \/ CancelRegister \/ PasswordRight \/ \E i \in Fingers : Delete(i)
    BY <1>0, <1>1, AddPhase, CancelPhase, CancelRegisterPhase, DeletePhase, PasswordPhase
  <1>5. ~Leave
    BY DEF Leave
  <1>2. CASE Receive
    BY <1>0, <1>2, RandomPhase, AcknowledgedPhase, RegPhase, DeleteRecvPhase, DeleteAllPhase,
       NumberPhase DEF Receive
  <1>3. CASE FpTimeoutHandle \/ Answer \/ Lose \/ Reboot \/ \E good \in BOOLEAN : Touch(good)
    BY <1>0, <1>3, TimeoutPhase, RandomAnswerPhase, CommandAnswerPhase, TouchPhase, LosePhase,
       RebootPhase
  <1>4. CASE Rest \/ UNCHANGED vars
    BY <1>0, <1>4, SamePhase DEF Rest
  <1> QED
    BY <1>1, <1>2, <1>3, <1>4, <1>5 DEF Next

(* Each operation is in one of the phases, and the next boot counts what a   *)
(* power failure left of it (fingerprint_process.c: FpGetNumberRecv).        *)
THEOREM PhaseStays == Spec => []PhaseInv
  BY InitLine, InitPhase, LineStep, PhaseStep, LineStays, PTL DEF Spec

(* When nothing is under way the list on the device, its copy in the secure *)
(* element and the module hold the same fingers (fingerprint_process.c:     *)
(* FpRegRecv, FpDeleteRecv, FpGetNumberRecv), whatever acknowledged frames  *)
(* were lost and wherever the power failed.                                 *)
THEOREM ListAlwaysMatches == Spec => []ListMatches
  <1>1. PhaseInv => ListMatches
    <2> SUFFICES ASSUME Phase, Quiet, ui = "manager"
                 PROVE  manager = Holding(module) /\ saved = manager
      BY DEF PhaseInv, ListMatches
    <2>1. Settled
      BY QuietPhase DEF Keyboard
    <2> QED
      BY <2>1 DEF Settled, Phase
  <1> QED
    BY <1>1, PhaseStays, PTL
=============================================================================
