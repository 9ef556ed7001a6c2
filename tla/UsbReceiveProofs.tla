-------------------------- MODULE UsbReceiveProofs --------------------------
(***************************************************************************)
(* The receive path of USB for any number of requests, any lengths of the  *)
(* frame, the queue and the ring for which the ring holds the frames of a  *)
(* queue but one (RoomAssumption): as long as the host stays less than a   *)
(* queue ahead, the parser gets the frames of the host, whole and in order *)
(* (LineInv), and hands their packets on once, and those of a request that *)
(* met no other complete (RequestInv).                                     *)
(***************************************************************************)
EXTENDS UsbReceive, TLAPS

-----------------------------------------------------------------------------
(* The cells of the ring                                                    *)

(* The cell o places behind t. *)
Cell(t, o) == (t + o) % PARSER_CACHE_LEN

LEMMA Wraps ==
    ASSUME NEW x \in 0..2 * PARSER_CACHE_LEN - 1
    PROVE  x % PARSER_CACHE_LEN = IF x < PARSER_CACHE_LEN THEN x ELSE x - PARSER_CACHE_LEN
<1>1. PARSER_CACHE_LEN \in Nat /\ PARSER_CACHE_LEN > 1
  BY SizeAssumption
<1>2. CASE x < PARSER_CACHE_LEN
  BY <1>1, <1>2, SMTT(30)
<1>3. CASE x >= PARSER_CACHE_LEN
  BY <1>1, <1>3, SMTT(30)
<1> QED
  BY <1>1, <1>2, <1>3

LEMMA WrapsBack ==
    ASSUME NEW x \in Int, -PARSER_CACHE_LEN < x, x < 0
    PROVE  x % PARSER_CACHE_LEN = x + PARSER_CACHE_LEN
<1>1. PARSER_CACHE_LEN \in Nat /\ PARSER_CACHE_LEN > 1
  BY SizeAssumption
<1> QED
  BY <1>1, SMTT(30)

LEMMA CellOf ==
    ASSUME NEW t \in Cells, NEW o \in Cells
    PROVE  /\ Cell(t, o) \in Cells
           /\ Cell(t, o) = IF t + o < PARSER_CACHE_LEN THEN t + o ELSE t + o - PARSER_CACHE_LEN
<1>1. PARSER_CACHE_LEN \in Nat /\ t + o \in 0..2 * PARSER_CACHE_LEN - 1
  BY SizeAssumption DEF Cells
<1>2. PICK x \in 0..2 * PARSER_CACHE_LEN - 1 : x = t + o
  BY <1>1
<1>3. Cell(t, o) = x % PARSER_CACHE_LEN
  BY <1>2, Zenon DEF Cell
<1>4. Cell(t, o) = IF x < PARSER_CACHE_LEN THEN x ELSE x - PARSER_CACHE_LEN
  BY <1>3, Wraps, Zenon
<1> QED
  BY <1>1, <1>2, <1>4 DEF Cells

LEMMA CellsDiffer ==
    ASSUME NEW t \in Cells, NEW a \in Cells, NEW b \in Cells, a # b
    PROVE  Cell(t, a) # Cell(t, b)
<1>1. PARSER_CACHE_LEN \in Nat
  BY SizeAssumption
<1>2. Cell(t, a) = IF t + a < PARSER_CACHE_LEN THEN t + a ELSE t + a - PARSER_CACHE_LEN
  BY CellOf, Zenon
<1>3. Cell(t, b) = IF t + b < PARSER_CACHE_LEN THEN t + b ELSE t + b - PARSER_CACHE_LEN
  BY CellOf, Zenon
<1> QED
  BY <1>1, <1>2, <1>3 DEF Cells

LEMMA FirstCell ==
    ASSUME NEW t \in Cells
    PROVE  Cell(t, 0) = t
<1>1. PARSER_CACHE_LEN \in Nat /\ PARSER_CACHE_LEN > 1
  BY SizeAssumption
<1> QED
  BY <1>1, CellOf DEF Cells

(* Below the last cell the writer advances and the ring is not full. *)
LEMMA NextCell ==
    ASSUME NEW t \in Cells, NEW o \in Nat, o + 1 \in Cells
    PROVE  Advance(Cell(t, o)) = Cell(t, o + 1) /\ Cell(t, o + 1) # t
<1>1. PARSER_CACHE_LEN \in Nat /\ PARSER_CACHE_LEN > 1 /\ o \in Cells
  BY SizeAssumption DEF Cells
<1>2. /\ Cell(t, o) \in Cells
      /\ Cell(t, o) = IF t + o < PARSER_CACHE_LEN THEN t + o ELSE t + o - PARSER_CACHE_LEN
      /\ Cell(t, o + 1) = IF t + (o + 1) < PARSER_CACHE_LEN THEN t + (o + 1)
                          ELSE t + (o + 1) - PARSER_CACHE_LEN
  BY <1>1, CellOf
<1>3. Cell(t, o) + 1 \in 0..2 * PARSER_CACHE_LEN - 1
  BY <1>1, <1>2 DEF Cells
<1>4. PICK x \in 0..2 * PARSER_CACHE_LEN - 1 : x = Cell(t, o) + 1
  BY <1>3
<1>5. Advance(Cell(t, o)) = Cell(t, o + 1)
  <2>1. Advance(Cell(t, o)) = x % PARSER_CACHE_LEN
    BY <1>4, Zenon DEF Advance
  <2>2. Advance(Cell(t, o)) = IF x < PARSER_CACHE_LEN THEN x ELSE x - PARSER_CACHE_LEN
    BY <2>1, Wraps, Zenon
  <2> QED
    BY <1>1, <1>2, <1>4, <2>2 DEF Cells
<1>6. Cell(t, o + 1) # Cell(t, 0)
  BY <1>1, CellsDiffer DEF Cells
<1> QED
  BY <1>5, <1>6, FirstCell

LEMMA ShiftedCell ==
    ASSUME NEW t \in Cells, NEW a \in Nat, NEW b \in Nat, a + b \in Cells
    PROVE  Cell(Cell(t, a), b) = Cell(t, a + b)
<1>1. PARSER_CACHE_LEN \in Nat /\ PARSER_CACHE_LEN > 1 /\ a \in Cells /\ b \in Cells
  BY SizeAssumption DEF Cells
<1>2. /\ Cell(t, a) \in Cells
      /\ Cell(t, a) = IF t + a < PARSER_CACHE_LEN THEN t + a ELSE t + a - PARSER_CACHE_LEN
      /\ Cell(t, a + b) = IF t + (a + b) < PARSER_CACHE_LEN THEN t + (a + b)
                          ELSE t + (a + b) - PARSER_CACHE_LEN
  BY <1>1, CellOf
<1>3. Cell(Cell(t, a), b) = IF Cell(t, a) + b < PARSER_CACHE_LEN THEN Cell(t, a) + b
                            ELSE Cell(t, a) + b - PARSER_CACHE_LEN
  BY <1>1, <1>2, CellOf
<1> QED
  BY <1>1, <1>2, <1>3 DEF Cells

(* What circular_buf_size gives. *)
LEMMA Distance ==
    ASSUME NEW t \in Cells, NEW o \in Cells
    PROVE  (Cell(t, o) - t) % PARSER_CACHE_LEN = o
<1>1. PARSER_CACHE_LEN \in Nat /\ PARSER_CACHE_LEN > 1
  BY SizeAssumption
<1>2. Cell(t, o) = IF t + o < PARSER_CACHE_LEN THEN t + o ELSE t + o - PARSER_CACHE_LEN
  BY CellOf
<1>3. CASE t + o < PARSER_CACHE_LEN
  <2>1. Cell(t, o) - t = o /\ o \in 0..2 * PARSER_CACHE_LEN - 1 /\ o < PARSER_CACHE_LEN
    BY <1>1, <1>2, <1>3 DEF Cells
  <2> QED
    BY <2>1, Wraps
<1>4. CASE t + o >= PARSER_CACHE_LEN
  <2>1. /\ Cell(t, o) - t = o - PARSER_CACHE_LEN /\ o - PARSER_CACHE_LEN \in Int
        /\ -PARSER_CACHE_LEN < o - PARSER_CACHE_LEN \/ o = 0
        /\ o - PARSER_CACHE_LEN < 0
        /\ o - PARSER_CACHE_LEN + PARSER_CACHE_LEN = o
    BY <1>1, <1>2, <1>4 DEF Cells
  <2>2. o # 0
    BY <1>1, <1>4 DEF Cells
  <2> QED
    BY <2>1, <2>2, WrapsBack
<1> QED
  BY <1>1, <1>3, <1>4 DEF Cells

(* Room for n frames. *)
LEMMA RoomGrows ==
    ASSUME NEW n \in Nat
    PROVE  n * FrameLen \in Nat /\ (n + 1) * FrameLen = n * FrameLen + FrameLen
<1>1. FrameLen \in Nat
  BY SizeAssumption
<1> QED
  BY <1>1, SMTT(30)

LEMMA RoomOrdered ==
    ASSUME NEW m \in Nat, NEW n \in Nat, m <= n
    PROVE  m * FrameLen <= n * FrameLen
<1>1. FrameLen \in Nat
  BY SizeAssumption
<1> QED
  BY <1>1, SMTT(30)


-----------------------------------------------------------------------------
(* The values of the variables                                              *)

Requests == [kind : Kinds, total : 1..MaxTotal]
Taken == Frames \cup {NoFrame}
Handled == [req : 1..MaxRequests, data : UNION {[1..n -> Frames] : n \in 0..MAX_PACKETS}]
Pending == IF usb = Idle THEN 0 ELSE 1
Known(f) == f = NoFrame \/ f.req \in DOMAIN requests

HostTypes ==
    /\ requests \in Seq(Requests) /\ Len(requests) <= MaxRequests
    /\ next \in 0..MaxTotal
    /\ spoilt \subseteq 1..MaxRequests
RingTypes ==
    /\ usb \in [frame : Taken, done : 0..FrameLen] /\ Known(usb.frame)
    /\ ring \in [Cells -> Taken \X (0..FrameLen)] /\ \A c \in Cells : Known(ring[c][1])
    /\ head \in Cells /\ tail \in Cells /\ saved \in Cells \cup {NoTail}
    /\ queue \in Seq(1..FrameLen) /\ Len(queue) <= QueueLen
    /\ saved # NoTail => usb # Idle /\ usb.done < LengthOf(usb.frame)
ParserTypes ==
    /\ total \in 0..MAX_PACKETS
    /\ Received \subseteq 0..MAX_PACKETS - 1 /\ \A i \in Received : packets[i] \in Frames
    /\ handled \in Seq(Handled)
LineTypes ==
    /\ sent \in Seq(Frames) /\ frame \in Taken
    /\ ~torn => Len(queue) + Pending <= Len(sent)
Types ==
    /\ HostTypes /\ RingTypes /\ ParserTypes /\ LineTypes
    /\ busy \in BOOLEAN /\ receiving \in BOOLEAN /\ torn \in BOOLEAN /\ ahead \in BOOLEAN

LEMMA Sizes ==
    /\ MAX_PACKETS \in Nat /\ MAX_PACKETS > 0 /\ FrameLen \in Nat /\ FrameLen > 0
    /\ QueueLen \in Nat /\ QueueLen > 0 /\ PARSER_CACHE_LEN \in Nat /\ PARSER_CACHE_LEN > 1
    /\ MaxTotal \in Nat /\ MaxTotal > 0 /\ MaxChunks \in Nat /\ MaxChunks > 0
    /\ MaxRequests \in Nat /\ MaxRequests > 0 /\ MaxChunks <= MaxTotal
  BY SizeAssumption

LEMMA LengthRange ==
    ASSUME NEW f
    PROVE  LengthOf(f) \in 1..FrameLen
  BY Sizes DEF LengthOf

LEMMA CellRange ==
    ASSUME NEW x \in Int
    PROVE  x % PARSER_CACHE_LEN \in Cells
  BY Sizes, SMTT(30) DEF Cells

LEMMA TailFacts ==
    ASSUME NEW S, NEW s \in Seq(S), s # <<>>
    PROVE  /\ Head(s) = s[1] /\ Head(s) \in S /\ Len(s) \in Nat /\ Len(s) > 0
           /\ Tail(s) \in Seq(S) /\ Len(Tail(s)) = Len(s) - 1
           /\ \A i \in 1..Len(s) - 1 : Tail(s)[i] = s[i + 1]
  OBVIOUS

LEMMA AppendFacts ==
    ASSUME NEW S, NEW s \in Seq(S), NEW e \in S
    PROVE  /\ Len(s) \in Nat /\ Append(s, e) \in Seq(S) /\ Len(Append(s, e)) = Len(s) + 1
           /\ \A i \in 1..Len(s) : Append(s, e)[i] = s[i]
           /\ Append(s, e)[Len(s) + 1] = e
  OBVIOUS

LEMMA InitTypes == Init => Types
<1> SUFFICES ASSUME Init PROVE Types
  OBVIOUS
<1>1. HostTypes
  BY Sizes DEF Init, HostTypes
<1>2. RingTypes
  BY Sizes DEF Init, RingTypes, Idle, Taken, Known, Cells, NoTail, NoFrame
<1>3. ParserTypes
  BY Sizes DEF Init, ParserTypes, Received
<1>4. LineTypes
  BY DEF Init, LineTypes, Taken, Pending
<1> QED
  BY <1>1, <1>2, <1>3, <1>4 DEF Init, Types

(* What the host has asked before stays as it was. *)
LEMMA RequestsGrow ==
    ASSUME Types, NEW kind \in Kinds, NEW n \in 1..MaxTotal, Len(requests) < MaxRequests,
           requests' = Append(requests, [kind |-> kind, total |-> n])
    PROVE  /\ requests' \in Seq(Requests) /\ Len(requests') = Len(requests) + 1
           /\ Len(requests') <= MaxRequests
           /\ DOMAIN requests \subseteq DOMAIN requests'
           /\ DOMAIN requests' = DOMAIN requests \cup {Len(requests')}
           /\ \A r \in DOMAIN requests : requests'[r] = requests[r]
           /\ requests'[Len(requests')] = [kind |-> kind, total |-> n]
           /\ Len(requests') \in 1..MaxRequests
<1>1. requests \in Seq(Requests) /\ [kind |-> kind, total |-> n] \in Requests /\ Len(requests) \in Nat
  BY DEF Types, HostTypes, Requests
<1>2. requests' \in Seq(Requests) /\ Len(requests') = Len(requests) + 1
      /\ \A i \in 1..Len(requests) + 1 : requests'[i] = IF i <= Len(requests) THEN requests[i]
                                          ELSE [kind |-> kind, total |-> n]
  BY <1>1
<1> QED
  BY <1>1, <1>2, Sizes

LEMMA TransferTypes ==
    ASSUME Types, NEW f \in Frames, Transfer(f), HostTypes', f.req \in DOMAIN requests',
           DOMAIN requests \subseteq DOMAIN requests'
    PROVE  Types'
<1> USE DEF Transfer, parserVars
<1>1. RingTypes'
  <2>1. usb' = [frame |-> f, done |-> 0] /\ usb' \in [frame : Taken, done : 0..FrameLen]
    BY Sizes DEF Taken
  <2>2. (\A c \in Cells : Known(ring[c][1]))' /\ Known(usb.frame)'
    BY <2>1 DEF Types, RingTypes, Known
  <2>3. saved' = NoTail
    BY DEF Types, RingTypes
  <2> QED
    BY <2>1, <2>2, <2>3 DEF Types, RingTypes
<1>2. ParserTypes'
  BY DEF Types, ParserTypes, Received
<1>3. LineTypes'
  <2>1. sent' \in Seq(Frames) /\ Len(sent') = Len(sent) + 1 /\ Len(sent) \in Nat
    BY DEF Types, LineTypes
  <2>2. ~torn' => Len(queue') + Pending' <= Len(sent')
    BY <2>1 DEF Types, LineTypes, RingTypes, Pending, Idle, NoFrame, Frames
  <2> QED
    BY <2>1, <2>2 DEF Types, LineTypes
<1> QED
  BY <1>1, <1>2, <1>3 DEF Types

LEMMA BeginTypes ==
    ASSUME Types, NEW kind \in Kinds, NEW n \in 1..MaxTotal, Begin(kind, n)
    PROVE  Types'
<1> DEFINE f == [req |-> Len(requests'), index |-> 0]
<1>1. /\ requests' \in Seq(Requests) /\ Len(requests') <= MaxRequests
      /\ DOMAIN requests \subseteq DOMAIN requests'
      /\ f.req \in DOMAIN requests' /\ f.req \in 1..MaxRequests
  BY RequestsGrow DEF Begin
<1>2. f \in Frames
  BY <1>1, Sizes DEF Frames
<1>3. HostTypes'
  <2>1. next' = 1
    BY DEF Begin, Transfer
  <2>2. spoilt' \subseteq 1..MaxRequests
    BY <1>1 DEF Begin, Types, HostTypes
  <2> QED
    BY <1>1, <2>1, <2>2, Sizes DEF HostTypes
<1> QED
  BY <1>1, <1>2, <1>3, TransferTypes DEF Begin

LEMMA GoOnTypes ==
    ASSUME Types, GoOn
    PROVE  Types'
<1> DEFINE f == [req |-> Len(requests), index |-> next]
<1>1. Len(requests) \in DOMAIN requests /\ Len(requests) \in 1..MaxRequests
  BY DEF GoOn, Types, HostTypes
<1>2. requests[Len(requests)] \in Requests
  BY <1>1 DEF Types, HostTypes
<1>3. next \in 0..MaxTotal - 1
  BY <1>2, Sizes DEF GoOn, Types, HostTypes, Requests
<1>4. f \in Frames /\ f.req \in DOMAIN requests'
  BY <1>1, <1>3 DEF Frames, GoOn
<1>5. HostTypes'
  BY <1>3, Sizes DEF GoOn, Transfer, Types, HostTypes
<1> QED
  BY <1>4, <1>5, TransferTypes DEF GoOn

LEMMA PutByteTypes ==
    ASSUME Types, PutByte
    PROVE  Types'
<1> USE DEF PutByte, hostVars, parserVars, history
<1>1. HostTypes' /\ ParserTypes'
  BY DEF Types, HostTypes, ParserTypes, Received
<1>2. RingTypes'
  <2>1. /\ usb.frame \in Taken /\ usb.done \in 0..FrameLen - 1
        /\ usb = [frame |-> usb.frame, done |-> usb.done]
    BY LengthRange, Sizes DEF Types, RingTypes
  <2>2. ring' \in [Cells -> Taken \X (0..FrameLen)]
    BY <2>1, Sizes DEF Types, RingTypes
  <2>3. \A c \in Cells : Known(ring[c][1])'
    BY DEF Types, RingTypes, Known
  <2>4. head' \in Cells
    BY CellRange DEF Types, RingTypes, Advance, Cells
  <2>5. usb' \in [frame : Taken, done : 0..FrameLen] /\ usb'.frame = usb.frame
    BY <2>1, Sizes
  <2>6. saved' \in Cells \cup {NoTail}
    BY DEF Types, RingTypes
  <2>7. (saved # NoTail => usb # Idle /\ usb.done < LengthOf(usb.frame))'
    BY DEF Storing, LengthOf, Types, RingTypes
  <2> QED
    BY <2>2, <2>3, <2>4, <2>5, <2>6, <2>7 DEF Types, RingTypes, Known
<1>3. LineTypes'
  BY DEF Types, LineTypes, Pending, Storing
<1> QED
  BY <1>1, <1>2, <1>3 DEF Types

LEMMA DropOldestTypes ==
    ASSUME Types, DropOldest
    PROVE  Types'
<1> USE DEF DropOldest, hostVars, parserVars, history
<1>1. HostTypes' /\ ParserTypes'
  BY DEF Types, HostTypes, ParserTypes, Received
<1>2. RingTypes'
  <2>1. /\ usb.frame \in Taken /\ usb.done \in 0..FrameLen - 1
        /\ usb = [frame |-> usb.frame, done |-> usb.done]
    BY LengthRange, Sizes DEF Types, RingTypes
  <2>2. head' \in Cells /\ tail' \in Cells
    BY CellRange DEF Types, RingTypes, Advance, Cells
  <2>3. usb' \in [frame : Taken, done : 0..FrameLen] /\ usb'.frame = usb.frame
    BY <2>1, Sizes
  <2>4. (\A c \in Cells : Known(ring[c][1]))'
    BY DEF Types, RingTypes, Known
  <2> QED
    BY <2>2, <2>3, <2>4 DEF Types, RingTypes, Known
<1>3. LineTypes'
  BY DEF Types, LineTypes, Pending, Storing
<1> QED
  BY <1>1, <1>2, <1>3 DEF Types

LEMMA AnnounceTypes ==
    ASSUME Types, Announce
    PROVE  Types'
<1> USE DEF Announce, hostVars, parserVars, history
<1>1. HostTypes' /\ ParserTypes'
  BY DEF Types, HostTypes, ParserTypes, Received
<1>2. queue \in Seq(1..FrameLen) /\ Len(queue) \in Nat /\ Len(queue) <= QueueLen
  BY DEF Types, RingTypes
<1>3. /\ queue' \in Seq(1..FrameLen) /\ Len(queue') <= QueueLen
      /\ Len(queue') <= Len(queue) + 1
  <2>1. CASE Len(queue) < QueueLen
    <3>1. queue' = Append(queue, LengthOf(usb.frame)) /\ LengthOf(usb.frame) \in 1..FrameLen
      BY <2>1, LengthRange
    <3> QED
      BY <1>2, <2>1, <3>1, Sizes
  <2>2. CASE ~(Len(queue) < QueueLen)
    BY <1>2, <2>2
  <2> QED
    BY <2>1, <2>2
<1>4. RingTypes'
  <2>1. usb' \in [frame : Taken, done : 0..FrameLen] /\ Known(usb.frame)'
    BY Sizes DEF Idle, Taken, Known
  <2>2. (\A c \in Cells : Known(ring[c][1]))' /\ saved' = NoTail
    BY DEF Types, RingTypes, Known
  <2> QED
    BY <1>3, <2>1, <2>2 DEF Types, RingTypes
<1>5. LineTypes'
  <2>1. ~torn => Len(queue) + 1 <= Len(sent)
    BY DEF Types, LineTypes, Pending, Storing
  <2>2. Pending' = 0 /\ Len(sent) \in Nat /\ Len(queue') \in Nat
    BY <1>3 DEF Pending, Types, LineTypes
  <2> QED
    BY <1>2, <1>3, <2>1, <2>2 DEF Types, LineTypes
<1> QED
  BY <1>1, <1>4, <1>5 DEF Types

(* What is stored beside the packets that are there. *)
LEMMA StoredRange ==
    ASSUME Types, NEW f \in Frames, NEW p1 \in 0..MAX_PACKETS + 1, NEW p2 \in Nat,
           ~WrongHeader(p1, p2)
    PROVE  /\ DOMAIN With(f, p2) = Received \cup {p2}
           /\ \A i \in Received \cup {p2} : With(f, p2)[i] \in Frames
           /\ p2 \in 0..MAX_PACKETS - 1 /\ p1 \in 1..MAX_PACKETS
<1>1. p2 \in 0..MAX_PACKETS - 1 /\ p1 \in 1..MAX_PACKETS
  BY Sizes DEF WrongHeader
<1>2. \A i \in Received : packets[i] \in Frames
  BY DEF Types, ParserTypes
<1>3. With(f, p2) = [i \in Received \cup {p2} |-> IF i = p2 THEN f ELSE packets[i]]
  BY DEF With
<1> QED
  BY <1>1, <1>2, <1>3

LEMMA ParseTypes ==
    ASSUME Types, NEW f \in Frames, NEW p1 \in Nat, NEW p2 \in Nat,
           EApduProtocolParse(f, p1, p2)
    PROVE  ParserTypes' /\ busy' \in BOOLEAN
<1> DEFINE count == IF p2 = 0 /\ total = 0 THEN p1 ELSE total
           stored == IF p2 = 0 /\ total = 0 THEN [i \in {0} |-> f] ELSE With(f, p2)
<1>0. /\ total \in 0..MAX_PACKETS /\ handled \in Seq(Handled) /\ busy \in BOOLEAN
      /\ Received \subseteq 0..MAX_PACKETS - 1 /\ \A i \in Received : packets[i] \in Frames
  BY DEF Types, ParserTypes
<1>1. CASE Freed /\ UNCHANGED handled
  <2>1. Received' = {} /\ total' = 0 /\ handled' = handled
    BY <1>1 DEF Freed, Received
  <2>2. 0 \in 0..MAX_PACKETS
    BY Sizes
  <2>3. busy' \in BOOLEAN
    BY <1>0, <1>1 DEF EApduProtocolParse
  <2> QED
    BY <1>0, <2>1, <2>2, <2>3 DEF ParserTypes
<1>2. CASE UNCHANGED <<total, packets, busy, handled>>
  BY <1>0, <1>2 DEF ParserTypes, Received
<1>3. CASE ~WrongHeader(p1, p2) /\ ~Duplicate(p2)
  <2>1. /\ DOMAIN With(f, p2) = Received \cup {p2}
        /\ \A i \in Received \cup {p2} : With(f, p2)[i] \in Frames
        /\ p2 \in 0..MAX_PACKETS - 1 /\ p1 \in 1..MAX_PACKETS
    <3>1. p1 \in 0..MAX_PACKETS + 1
      BY <1>3, Sizes DEF WrongHeader
    <3> QED
      BY <1>3, <3>1, StoredRange
  <2>2. /\ count \in 0..MAX_PACKETS
        /\ DOMAIN stored \subseteq 0..MAX_PACKETS - 1 /\ \A i \in DOMAIN stored : stored[i] \in Frames
    <3>1. CASE p2 = 0 /\ total = 0
      BY <2>1, <3>1
    <3>2. CASE ~(p2 = 0 /\ total = 0)
      <4>1. count = total /\ stored = With(f, p2)
        BY <3>2
      <4> HIDE DEF count, stored
      <4> QED
        BY <1>0, <2>1, <4>1
    <3> QED
      BY <3>1, <3>2
  <2>3. CASE Misses(count, stored)
    <3>1. total' = count /\ packets' = stored /\ UNCHANGED <<busy, handled>>
      BY <1>3, <2>3 DEF EApduProtocolParse
    <3> HIDE DEF count, stored
    <3> QED
      BY <1>0, <2>2, <3>1 DEF ParserTypes, Received
  <2>4. CASE ~Misses(count, stored)
    <3>1. /\ handled' = Append(handled,
                 [req |-> f.req, data |-> [i \in 1..count |-> stored[i - 1]]])
          /\ Freed /\ busy' = TRUE
      BY <1>3, <2>4 DEF EApduProtocolParse, AfterHandler
    <3> HIDE DEF count, stored
    <3>2. \A i \in 1..count : i - 1 \in DOMAIN stored
      BY <2>2, <2>4, Sizes DEF Misses
    <3>3. [i \in 1..count |-> stored[i - 1]] \in [1..count -> Frames]
      BY <2>2, <3>2
    <3>4. [req |-> f.req, data |-> [i \in 1..count |-> stored[i - 1]]] \in Handled
      BY <2>2, <3>3 DEF Handled, Frames
    <3>5. handled' \in Seq(Handled) /\ Received' = {} /\ total' = 0
      BY <1>0, <3>1, <3>4 DEF Freed, Received
    <3> QED
      BY <3>1, <3>5, Sizes DEF ParserTypes
  <2> QED
    BY <2>3, <2>4
<1> QED
  BY <1>0, <1>1, <1>2, <1>3 DEF EApduProtocolParse

LEMMA ReceiveTypes ==
    ASSUME Types, NEW f \in Frames, f.req \in DOMAIN requests, ProtocolReceivedData(f)
    PROVE  /\ ParserTypes' /\ busy' \in BOOLEAN /\ receiving' \in BOOLEAN
           /\ spoilt' \subseteq 1..MaxRequests
<1> USE DEF ProtocolReceivedData
<1>1. requests[f.req].total \in Nat /\ f.index \in Nat /\ f.req \in 1..MaxRequests
  <2>1. requests \in Seq(Requests)
    BY DEF Types, HostTypes
  <2>2. requests[f.req] \in Requests
    BY <2>1
  <2> QED
    BY <2>2, Sizes DEF Requests, Frames
<1>2. receiving \in BOOLEAN /\ busy \in BOOLEAN /\ ParserTypes /\ spoilt \subseteq 1..MaxRequests
  BY DEF Types, HostTypes
<1>3. CASE /\ UNCHANGED <<busy, total, packets, handled>>
           /\ receiving' \in {receiving, TRUE} /\ spoilt' \in {spoilt, spoilt \cup {f.req}}
  BY <1>1, <1>2, <1>3 DEF ParserTypes, Received
<1>4. CASE requests[f.req].kind = "eapdu" /\ ~receiving
  BY <1>1, <1>2, <1>4, ParseTypes
<1>5. ASSUME requests[f.req].kind # "eapdu",
             NEW p1 \in 0..MAX_PACKETS + 1, NEW p2 \in 0..MAX_PACKETS,
             EApduProtocolParse(f, p1, p2), UNCHANGED <<receiving, spoilt>>
      PROVE  /\ ParserTypes' /\ busy' \in BOOLEAN /\ receiving' \in BOOLEAN
             /\ spoilt' \subseteq 1..MaxRequests
  BY <1>2, <1>5, ParseTypes, Sizes
<1> QED
  BY <1>1, <1>2, <1>3, <1>4, <1>5, Zenon DEF parserVars

LEMMA TakeTypes ==
    ASSUME Types, Take
    PROVE  Types'
<1> DEFINE n == Head(queue)
           cells == Got(n)
           f == cells[1][1]
<1> USE DEF Take, hostVars
<1>1. /\ queue \in Seq(1..FrameLen) /\ queue # <<>> /\ Len(queue) \in Nat /\ Len(queue) <= QueueLen
      /\ ring \in [Cells -> Taken \X (0..FrameLen)] /\ \A c \in Cells : Known(ring[c][1])
      /\ tail \in Cells /\ head \in Cells /\ tail \in Int /\ head \in Int
  BY DEF Types, RingTypes, Cells
<1>2. /\ n \in 1..FrameLen /\ queue' \in Seq(1..FrameLen) /\ Len(queue') = Len(queue) - 1
      /\ Len(queue') <= QueueLen
  <2>1. Head(queue) \in 1..FrameLen /\ Tail(queue) \in Seq(1..FrameLen)
        /\ Len(Tail(queue)) = Len(queue) - 1
    BY <1>1, TailFacts, Zenon
  <2>2. queue' = Tail(queue) /\ n = Head(queue)
    OBVIOUS
  <2> QED
    BY <1>1, <2>1, <2>2, Sizes
<1>3. Stored \in Cells /\ Stored \in Nat
  <2>1. head - tail \in Int
    BY <1>1
  <2>2. Stored \in Cells
    BY <2>1, CellRange, Zenon DEF Stored
  <2> QED
    BY <2>2, Sizes DEF Cells
<1>4. PICK m \in Nat : m = IF n <= Stored THEN n ELSE Stored
  BY <1>2, <1>3
<1>5. cells = [k \in 1..m |-> ring[(tail + k - 1) % PARSER_CACHE_LEN]]
  BY <1>4 DEF Got
<1>6. \A k \in 1..m : ring[(tail + k - 1) % PARSER_CACHE_LEN] \in Taken \X (0..FrameLen)
                      /\ Known(ring[(tail + k - 1) % PARSER_CACHE_LEN][1])
  <2>1. \A k \in 1..m : (tail + k - 1) % PARSER_CACHE_LEN \in Cells
    BY <1>1, CellRange
  <2> QED
    BY <1>1, <2>1, Zenon
<1>7. Len(cells) = m
  BY <1>5
<1>8. tail' \in Cells
  <2>1. tail + m \in Int
    BY <1>1
  <2>2. tail' = (tail + m) % PARSER_CACHE_LEN
    BY <1>7 DEF TailAfter
  <2> QED
    BY <2>1, <2>2, CellRange
<1>9. RingTypes'
  <2>1. (saved # NoTail => usb # Idle /\ usb.done < LengthOf(usb.frame))'
    BY DEF Types, RingTypes, LengthOf
  <2>2. Known(usb.frame)' /\ (\A c \in Cells : Known(ring[c][1]))'
    BY DEF Types, RingTypes, Known
  <2>3. usb' = usb /\ ring' = ring /\ head' = head /\ saved' = saved
    OBVIOUS
  <2> QED
    BY <1>1, <1>2, <1>8, <2>1, <2>2, <2>3, Zenon DEF Types, RingTypes
<1>10. CASE IsFrame(cells, n)
  <2>1. f # NoFrame /\ m = n
    BY <1>7, <1>10 DEF IsFrame
  <2>2. f \in Frames /\ f.req \in DOMAIN requests
    <3>1. cells[1] = ring[(tail + 1 - 1) % PARSER_CACHE_LEN] /\ 1 \in 1..m
      BY <1>2, <1>5, <2>1
    <3> HIDE DEF cells
    <3>2. cells[1] \in Taken \X (0..FrameLen) /\ Known(cells[1][1])
      BY <1>6, <3>1, Zenon
    <3> QED
      BY <2>1, <3>2 DEF Taken, Known
  <2>3. frame' = f /\ sent' = Tail(sent) /\ torn' = torn /\ ProtocolReceivedData(f)
    BY <1>10
  <2> HIDE DEF f, cells, n
  <2>4. ParserTypes' /\ busy' \in BOOLEAN /\ receiving' \in BOOLEAN /\ spoilt' \subseteq 1..MaxRequests
    BY <2>2, <2>3, ReceiveTypes
  <2>5. LineTypes'
    <3>1. sent \in Seq(Frames) /\ Len(queue) + Pending <= Len(sent) /\ Len(sent) \in Nat
      BY DEF Types, LineTypes
    <3>2. Pending \in 0..1 /\ Pending' = Pending
      BY DEF Pending
    <3>3. sent' \in Seq(Frames) /\ Len(sent') = Len(sent) - 1
      <4>1. sent # <<>>
        BY <1>1, <3>1, <3>2
      <4> QED
        BY <3>1, <2>3, <4>1
    <3>4. Len(queue') + Pending' <= Len(sent')
      BY <1>1, <1>2, <3>1, <3>2, <3>3
    <3> QED
      BY <2>2, <2>3, <3>3, <3>4 DEF LineTypes, Taken
  <2>6. HostTypes'
    BY <2>4 DEF Types, HostTypes
  <2> QED
    BY <1>9, <2>3, <2>4, <2>5, <2>6 DEF Types
<1>11. CASE ~IsFrame(cells, n)
  <2>1. torn' = TRUE /\ UNCHANGED <<parserVars, frame, sent, handled, spoilt>>
    BY <1>11
  <2>2. HostTypes' /\ ParserTypes' /\ LineTypes'
    BY <2>1 DEF Types, HostTypes, ParserTypes, Received, LineTypes, parserVars
  <2> QED
    BY <1>9, <2>1, <2>2 DEF Types, parserVars
<1> QED
  BY <1>10, <1>11

LEMMA StaysTypes ==
    ASSUME Types, Return \/ FileOver \/ UNCHANGED vars
    PROVE  Types'
<1> USE DEF vars, hostVars, ringVars, parserVars, history
<1>1. UNCHANGED <<hostVars, ringVars, total, packets, history>> /\ busy' \in BOOLEAN /\ receiving' \in BOOLEAN
  BY DEF Return, FileOver, Types
<1>2. HostTypes' /\ ParserTypes' /\ LineTypes'
  BY <1>1 DEF Types, HostTypes, ParserTypes, Received, LineTypes, Pending
<1>3. RingTypes'
  BY <1>1 DEF Types, RingTypes, Known, LengthOf
<1> QED
  BY <1>1, <1>2, <1>3 DEF Types

LEMMA NextTypes ==
    ASSUME Types, [Next]_vars
    PROVE  Types'
<1>1. 1..MaxChunks \subseteq 1..MaxTotal
  BY Sizes
<1>2. CASE Next
  BY <1>1, <1>2, BeginTypes, GoOnTypes, PutByteTypes, DropOldestTypes, AnnounceTypes, TakeTypes,
     StaysTypes, Zenon DEF Next, Kinds, Finished
<1> QED
  BY <1>2, StaysTypes

LEMMA AlwaysTypes == Spec => []Types
<1>1. Init => Types
  BY InitTypes
<1>2. Types /\ [Next]_vars => Types'
  BY NextTypes
<1> QED
  BY <1>1, <1>2, PTL DEF Spec

(* The indices of the ring, the lengths in the queue and the packets stay   *)
(* within their bounds for all that the host sends: the rows of             *)
(* EApduProtocolParse are never written beyond MAX_PACKETS.                  *)
THEOREM TypesOfUsbReceive == Spec => []TypeOK
<1>1. Types => TypeOK
  BY DEF Types, HostTypes, RingTypes, ParserTypes, LineTypes, Requests, Taken, TypeOK
<1> QED
  BY <1>1, AlwaysTypes, PTL

-----------------------------------------------------------------------------
(* Where the frames lie.                                                    *)

(* The frame f belongs to one of the requests asked. *)
Whole(f, asked) == f \in Frames /\ f.req \in DOMAIN asked /\ f.index < asked[f.req].total

(* What LengthOf gives, with the requests as a parameter. *)
LengthIn(f, asked) == IF f.index = asked[f.req].total - 1 THEN 1 ELSE FrameLen

(* What was sent and not yet taken is of requests the host has made.        *)
WholeInv == (\A i \in DOMAIN sent : Whole(sent[i], requests)) /\ (frame = NoFrame \/ Whole(frame, requests))

(* Each of them is announced in the queue, but the one that is being stored. *)
QueueInv ==
    /\ saved = NoTail /\ ~torn /\ Len(sent) < QueueLen
    /\ Len(sent) = Len(queue) + Pending
    /\ \A i \in DOMAIN queue : queue[i] = LengthOf(sent[i])
    /\ usb # Idle => usb.frame = sent[Len(sent)] /\ usb.done <= LengthOf(usb.frame)

(* off[i] is where the frame i ends, counted from the tail.  Between two    *)
(* ends there is room for the frames between them and no more.              *)
Spaced(off, n) ==
    /\ off[0] = 0
    /\ \A i \in 0..n : \A j \in i..n : off[i] <= off[j] /\ off[j] <= off[i] + (j - i) * FrameLen

Ends(off) == \A i \in 1..Len(queue) : off[i] = off[i - 1] + queue[i]

(* The bytes of each frame, and of the one being stored, are in their cells. *)
Stands(off) ==
    /\ \A i \in 1..Len(queue) : \A k \in 0..queue[i] - 1 :
          ring[Cell(tail, off[i - 1] + k)] = <<sent[i], k>>
    /\ \A k \in 0..usb.done - 1 : ring[Cell(tail, off[Len(queue)] + k)] = <<usb.frame, k>>
    /\ head = Cell(tail, off[Len(queue)] + usb.done)

Placed(off) == Spaced(off, Len(queue)) /\ Ends(off) /\ Stands(off)

RingInv == \E off \in [0..Len(queue) -> Nat] : Placed(off)

LineInv == ~ahead => WholeInv /\ QueueInv /\ RingInv

LEMMA IdleDone ==
    ASSUME usb = Idle
    PROVE  usb.done = 0
  BY DEF Idle

(* The frames on their way leave a cell of the ring free, and so does the   *)
(* one being stored until it is stored.                                     *)
LEMMA RoomLeft ==
    ASSUME Types, QueueInv, NEW off \in [0..Len(queue) -> Nat], Spaced(off, Len(queue))
    PROVE  /\ Len(queue) \in Nat /\ usb.done \in Nat /\ off[Len(queue)] \in Nat
           /\ \A i \in 0..Len(queue) : off[i] \in Cells /\ off[i] \in Nat /\ off[i] <= off[Len(queue)]
           /\ off[Len(queue)] + usb.done \in Cells
           /\ usb # Idle /\ usb.done < LengthOf(usb.frame) => off[Len(queue)] + (usb.done + 1) \in Cells
<1> DEFINE n == Len(queue)
           room == (QueueLen - 1) * FrameLen
<1>1. n \in Nat /\ usb.done \in Nat /\ Len(sent) \in Nat /\ FrameLen \in Nat /\ QueueLen \in Nat
      /\ PARSER_CACHE_LEN \in Nat
  BY Sizes DEF Types, RingTypes, LineTypes
<1>2. off[n] \in Nat /\ off[0] = 0 /\ off[n] <= n * FrameLen
  <2>1. 0 \in 0..n /\ n \in 0..n /\ n - 0 = n
    BY <1>1
  <2>2. off[n] <= off[0] + (n - 0) * FrameLen
    BY <1>1, <2>1 DEF Spaced
  <2>3. n * FrameLen \in Nat
    BY <1>1, RoomGrows
  <2> QED
    BY <1>1, <2>1, <2>2, <2>3 DEF Spaced
<1>3. room \in Nat /\ room < PARSER_CACHE_LEN
  <2>1. QueueLen - 1 \in Nat
    BY Sizes
  <2> QED
    BY <2>1, RoomGrows, RoomAssumption
<1>4. \A i \in 0..n : off[i] \in Nat /\ off[i] <= off[n]
  <2> TAKE i \in 0..n
  <2>1. n \in i..n
    BY <1>1
  <2>2. off[i] <= off[n]
    BY <2>1, Zenon DEF Spaced
  <2> QED
    BY <2>2
<1>5. CASE usb = Idle
  <2>1. n <= QueueLen - 1 /\ QueueLen - 1 \in Nat
    BY <1>1, <1>5, Sizes DEF QueueInv, Pending
  <2>2. n * FrameLen <= room /\ n * FrameLen \in Nat
    BY <1>1, <2>1, RoomOrdered, RoomGrows
  <2>3. usb.done = 0
    BY <1>5, IdleDone
  <2> HIDE DEF n, room
  <2>4. off[n] + usb.done < PARSER_CACHE_LEN
    BY <1>1, <1>2, <1>3, <2>2, <2>3
  <2>5. off[n] + usb.done \in Cells /\ \A i \in 0..n : off[i] \in Cells
    BY <1>1, <1>2, <1>4, <2>3, <2>4 DEF Cells
  <2> QED
    BY <1>1, <1>2, <1>5, <1>4, <2>5 DEF n
<1>6. CASE usb # Idle
  <2>1. n + 1 <= QueueLen - 1 /\ QueueLen - 1 \in Nat
    BY <1>1, <1>6, Sizes DEF QueueInv, Pending
  <2>2. (n + 1) * FrameLen <= room /\ (n + 1) * FrameLen = n * FrameLen + FrameLen
        /\ n * FrameLen \in Nat
    BY <1>1, <2>1, RoomOrdered, RoomGrows
  <2>3. LengthOf(usb.frame) \in 1..FrameLen /\ usb.done <= LengthOf(usb.frame)
    BY <1>6, LengthRange DEF QueueInv
  <2> HIDE DEF n, room
  <2>4. off[n] + usb.done < PARSER_CACHE_LEN
        /\ (usb.done < LengthOf(usb.frame) => off[n] + (usb.done + 1) < PARSER_CACHE_LEN)
    BY <1>1, <1>2, <1>3, <2>2, <2>3
  <2>5. off[n] + usb.done \in Cells /\ \A i \in 0..n : off[i] \in Cells
    BY <1>1, <1>2, <1>4, <2>4 DEF Cells
  <2>6. usb.done < LengthOf(usb.frame) => off[n] + (usb.done + 1) \in Cells
    BY <1>1, <1>2, <2>4 DEF Cells
  <2> QED
    BY <1>1, <1>2, <1>4, <1>6, <2>5, <2>6 DEF n
<1> QED
  BY <1>5, <1>6

(* A byte of a frame in the queue lies before the bytes of the last.        *)
LEMMA ByteBefore ==
    ASSUME Types, QueueInv, NEW off \in [0..Len(queue) -> Nat], Spaced(off, Len(queue)), Ends(off),
           NEW i \in 1..Len(queue), NEW k \in 0..queue[i] - 1
    PROVE  off[i - 1] + k \in Cells /\ off[i - 1] + k < off[i] /\ off[i] <= off[Len(queue)]
<1>1. queue[i] \in Nat /\ Len(queue) \in Nat /\ i - 1 \in 0..Len(queue) /\ i \in 0..Len(queue)
  <2>1. queue \in Seq(1..FrameLen)
    BY DEF Types, RingTypes
  <2>2. queue[i] \in 1..FrameLen /\ Len(queue) \in Nat
    BY <2>1
  <2> QED
    BY <2>2
<1>2. off[i] \in Cells /\ off[i] \in Nat /\ off[i - 1] \in Nat /\ off[i] <= off[Len(queue)]
  BY <1>1, RoomLeft
<1>3. off[i] = off[i - 1] + queue[i]
  BY DEF Ends
<1> QED
  BY <1>1, <1>2, <1>3, Sizes DEF Cells

LEMMA InitLine == Init => LineInv
<1> SUFFICES ASSUME Init PROVE LineInv
  OBVIOUS
<1> DEFINE off == [i \in 0..0 |-> 0]
<1>1. WholeInv /\ QueueInv
  BY Sizes DEF Init, WholeInv, QueueInv, Pending, NoTail
<1>2. Len(queue) = 0 /\ usb.done = 0 /\ head = 0 /\ tail = 0
  BY DEF Init, Idle
<1>3. off \in [0..Len(queue) -> Nat] /\ off[0] = 0
  BY <1>2
<1>4. Spaced(off, 0)
  BY <1>3, Sizes DEF Spaced
<1>5. Ends(off) /\ Stands(off)
  <2>1. 0 \in Cells
    BY Sizes DEF Cells
  <2>2. Cell(0, 0) = 0
    BY <2>1, FirstCell
  <2> HIDE DEF off
  <2> QED
    BY <1>2, <1>3, <2>2 DEF Ends, Stands
<1> QED
  BY <1>1, <1>2, <1>3, <1>4, <1>5 DEF LineInv, RingInv, Placed

(* A transfer is complete: the line is longer by a frame not yet stored.    *)
LEMMA TransferLine ==
    ASSUME Types, LineInv, NEW f \in Frames, Transfer(f), ~ahead', Whole(f, requests'),
           requests' \in Seq(Requests), DOMAIN requests \subseteq DOMAIN requests',
           \A r \in DOMAIN requests : requests'[r] = requests[r]
    PROVE  /\ WholeInv' /\ QueueInv' /\ RingInv' /\ ~ahead
           /\ sent' = Append(sent, f) /\ frame' = frame /\ Len(sent') = Len(sent) + 1
           /\ sent' \in Seq(Frames) /\ sent'[Len(sent')] = f
           /\ \A i \in 1..Len(sent) : sent'[i] = sent[i]
<1>1. ~ahead /\ WholeInv /\ QueueInv /\ RingInv
  BY DEF Transfer, LineInv
<1>2. /\ sent \in Seq(Frames) /\ sent' = Append(sent, f) /\ frame' = frame
      /\ usb = Idle /\ usb' = [frame |-> f, done |-> 0] /\ usb' # Idle
      /\ UNCHANGED <<ring, head, tail, saved, queue, torn>>
  BY DEF Transfer, Types, LineTypes, Idle, Frames, NoFrame
<1>3. /\ Len(sent) \in Nat /\ sent' \in Seq(Frames) /\ Len(sent') = Len(sent) + 1
      /\ \A i \in 1..Len(sent) : sent'[i] = sent[i]
      /\ sent'[Len(sent) + 1] = f
  BY <1>2, AppendFacts
<1>4. Len(queue) \in Nat /\ Len(sent) = Len(queue)
  BY <1>1, <1>2 DEF QueueInv, Pending, Types, RingTypes
<1>5. \A g : Whole(g, requests) => Whole(g, requests') /\ LengthIn(g, requests') = LengthIn(g, requests)
  BY DEF Whole, LengthIn
<1>6. WholeInv'
  <2>1. \A i \in DOMAIN sent' : Whole(sent'[i], requests')
    <3> TAKE i \in DOMAIN sent'
    <3>1. CASE i \in 1..Len(sent)
      BY <1>1, <1>2, <1>3, <1>5, <3>1 DEF WholeInv
    <3>2. CASE i = Len(sent) + 1
      BY <1>3, <3>2
    <3> QED
      BY <1>3, <3>1, <3>2
  <2>2. frame = NoFrame \/ Whole(frame, requests')
    BY <1>1, <1>5 DEF WholeInv
  <2> QED
    BY <1>2, <2>1, <2>2 DEF WholeInv
<1>7. QueueInv'
  <2>1. Len(sent') < QueueLen
    <3>1. ~(Len(sent') >= QueueLen)
      BY DEF Transfer
    <3> QED
      BY <1>3, <3>1, Sizes
  <2>2. Pending' = 1
    BY <1>2 DEF Pending
  <2>3. \A i \in DOMAIN queue : queue[i] = LengthIn(sent'[i], requests')
    <3> TAKE i \in DOMAIN queue
    <3>1. i \in 1..Len(sent)
      BY <1>4 DEF Types, RingTypes
    <3>2. Whole(sent[i], requests) /\ queue[i] = LengthIn(sent[i], requests) /\ sent'[i] = sent[i]
      BY <1>1, <1>2, <1>3, <3>1 DEF WholeInv, QueueInv, LengthOf, LengthIn
    <3> QED
      BY <1>5, <3>2
  <2>4. usb'.frame = sent'[Len(sent')] /\ usb'.done = 0
    BY <1>2, <1>3
  <2>5. (usb.done <= LengthOf(usb.frame))'
    BY <2>4, LengthRange, Sizes DEF LengthOf
  <2> QED
    BY <1>1, <1>2, <1>3, <1>4, <2>1, <2>2, <2>3, <2>4, <2>5 DEF QueueInv, LengthOf, LengthIn
<1>8. RingInv'
  <2>1. PICK off \in [0..Len(queue) -> Nat] : Placed(off)
    BY <1>1 DEF RingInv
  <2>2. usb.done = 0 /\ usb'.done = 0
    BY <1>2, IdleDone
  <2>3. Stands(off)'
    <3>1. \A i \in 1..Len(queue) : sent'[i] = sent[i]
      BY <1>3, <1>4
    <3>2. Stands(off)
      BY <2>1 DEF Placed
    <3>3. \A i \in 1..Len(queue) : \A k \in 0..queue[i] - 1 :
             ring[Cell(tail, off[i - 1] + k)] = <<sent'[i], k>>
      BY <3>1, <3>2 DEF Stands
    <3>4. \A k \in 0..0 - 1 : ring[Cell(tail, off[Len(queue)] + k)] = <<usb'.frame, k>>
      OBVIOUS
    <3>5. head = Cell(tail, off[Len(queue)] + 0)
      BY <2>2, <3>2 DEF Stands
    <3> QED
      BY <1>2, <2>2, <3>3, <3>4, <3>5, Zenon DEF Stands
  <2>4. Spaced(off, Len(queue))' /\ Ends(off)'
    BY <1>2, <2>1 DEF Placed, Spaced, Ends
  <2> QED
    BY <1>2, <2>3, <2>4 DEF Placed, RingInv
<1> QED
  BY <1>1, <1>2, <1>3, <1>6, <1>7, <1>8

(* The effect of the two steps of the host.                                 *)
LEMMA BeginFrame ==
    ASSUME Types, NEW kind \in Kinds, NEW n \in 1..MaxTotal, Begin(kind, n)
    PROVE  LET f == [req |-> Len(requests) + 1, index |-> 0]
           IN  /\ f \in Frames /\ Transfer(f) /\ Whole(f, requests')
               /\ requests' \in Seq(Requests) /\ DOMAIN requests \subseteq DOMAIN requests'
               /\ \A r \in DOMAIN requests : requests'[r] = requests[r]
               /\ Len(requests') = Len(requests) + 1
<1> DEFINE f == [req |-> Len(requests) + 1, index |-> 0]
<1>1. /\ requests' \in Seq(Requests) /\ Len(requests') = Len(requests) + 1
      /\ DOMAIN requests \subseteq DOMAIN requests'
      /\ Len(requests') \in DOMAIN requests' /\ Len(requests') \in 1..MaxRequests
      /\ \A r \in DOMAIN requests : requests'[r] = requests[r]
      /\ requests'[Len(requests')] = [kind |-> kind, total |-> n]
  BY RequestsGrow DEF Begin
<1>2. f \in Frames
  BY <1>1, Sizes DEF Frames
<1>3. Transfer(f)
  BY <1>1 DEF Begin
<1>4. Whole(f, requests')
  <2>1. requests'[f.req].total = n /\ f.index = 0 /\ f.req \in DOMAIN requests' /\ n > 0
    BY <1>1, Sizes
  <2> HIDE DEF f
  <2> QED
    BY <1>2, <2>1 DEF Whole
<1> QED
  BY <1>1, <1>2, <1>3, <1>4

LEMMA GoOnFrame ==
    ASSUME Types, GoOn
    PROVE  LET f == [req |-> Len(requests), index |-> next]
           IN  f \in Frames /\ Transfer(f) /\ Whole(f, requests') /\ requests' = requests
<1> DEFINE f == [req |-> Len(requests), index |-> next]
<1>1. Len(requests) \in DOMAIN requests /\ Len(requests) \in 1..MaxRequests
  BY DEF GoOn, Types, HostTypes
<1>2. requests[Len(requests)] \in Requests
  BY <1>1 DEF Types, HostTypes
<1>3. next \in 0..MaxTotal - 1 /\ next < requests[Len(requests)].total
  BY <1>2, Sizes DEF GoOn, Types, HostTypes, Requests
<1>4. f \in Frames /\ f.req \in DOMAIN requests /\ f.index < requests[f.req].total
  BY <1>1, <1>3 DEF Frames
<1>5. Transfer(f) /\ requests' = requests
  BY DEF GoOn
<1> HIDE DEF f
<1>6. Whole(f, requests')
  BY <1>4, <1>5 DEF Whole
<1> QED
  BY <1>4, <1>5, <1>6 DEF f

LEMMA BeginLine ==
    ASSUME Types, LineInv, NEW kind \in Kinds, NEW n \in 1..MaxTotal, Begin(kind, n)
    PROVE  LineInv'
<1> SUFFICES ASSUME ~ahead' PROVE WholeInv' /\ QueueInv' /\ RingInv'
  BY DEF LineInv
<1> DEFINE f == [req |-> Len(requests) + 1, index |-> 0]
<1>1. /\ f \in Frames /\ Transfer(f) /\ Whole(f, requests')
      /\ requests' \in Seq(Requests) /\ DOMAIN requests \subseteq DOMAIN requests'
      /\ \A r \in DOMAIN requests : requests'[r] = requests[r]
  BY BeginFrame, Zenon
<1> HIDE DEF f
<1> QED
  BY <1>1, TransferLine, Zenon

LEMMA GoOnLine ==
    ASSUME Types, LineInv, GoOn
    PROVE  LineInv'
<1> SUFFICES ASSUME ~ahead' PROVE WholeInv' /\ QueueInv' /\ RingInv'
  BY DEF LineInv
<1>1. requests \in Seq(Requests)
  BY DEF Types, HostTypes
<1> DEFINE f == [req |-> Len(requests), index |-> next]
<1>2. f \in Frames /\ Transfer(f) /\ Whole(f, requests') /\ requests' = requests
  BY GoOnFrame, Zenon
<1> HIDE DEF f
<1>3. DOMAIN requests \subseteq DOMAIN requests' /\ \A r \in DOMAIN requests : requests'[r] = requests[r]
  BY <1>2
<1> QED
  BY <1>1, <1>2, <1>3, TransferLine, Zenon

(* A byte is stored: the ring is not full, so the tail stays.               *)
LEMMA PutByteLine ==
    ASSUME Types, LineInv, PutByte, ~ahead'
    PROVE  WholeInv' /\ QueueInv' /\ RingInv'
<1>1. WholeInv /\ QueueInv /\ RingInv
  BY DEF LineInv, PutByte, history
<1>2. PICK off \in [0..Len(queue) -> Nat] : Placed(off)
  BY <1>1 DEF RingInv
<1> DEFINE o == off[Len(queue)] + usb.done
<1>3. /\ usb # Idle /\ usb.done < LengthOf(usb.frame)
      /\ usb = [frame |-> usb.frame, done |-> usb.done]
      /\ ring \in [Cells -> Taken \X (0..FrameLen)] /\ tail \in Cells /\ saved = NoTail
  BY <1>1 DEF PutByte, Storing, Types, RingTypes, QueueInv
<1>4. /\ Len(queue) \in Nat /\ usb.done \in Nat /\ off[Len(queue)] \in Nat
      /\ \A i \in 0..Len(queue) : off[i] \in Cells /\ off[i] \in Nat /\ off[i] <= off[Len(queue)]
      /\ o \in Cells /\ off[Len(queue)] + (usb.done + 1) \in Cells
  BY <1>1, <1>2, <1>3, RoomLeft DEF Placed
<1>5. o \in Nat /\ o + 1 = off[Len(queue)] + (usb.done + 1)
  BY <1>4
<1>6. head = Cell(tail, o) /\ Advance(head) = Cell(tail, o + 1) /\ Advance(head) # tail
  <2>1. head = Cell(tail, o)
    BY <1>2 DEF Placed, Stands
  <2>2. o + 1 \in Cells
    BY <1>4, <1>5
  <2> HIDE DEF o
  <2> QED
    BY <1>3, <1>5, <2>1, <2>2, NextCell
<1>7. /\ ring' = [ring EXCEPT ![head] = <<usb.frame, usb.done>>]
      /\ head' = Advance(head) /\ saved' = saved
      /\ usb'.frame = usb.frame /\ usb'.done = usb.done + 1 /\ usb' # Idle
      /\ UNCHANGED <<queue, tail, requests, sent, frame, torn>>
  <2>1. head' = Advance(head) /\ usb' = [usb EXCEPT !.done = @ + 1] /\ saved' = saved
    BY <1>6 DEF PutByte, Full
  <2> QED
    BY <1>3, <1>4, <2>1 DEF Idle, PutByte, hostVars, history
<1>8. \A a \in Cells : a < o => ring'[Cell(tail, a)] = ring[Cell(tail, a)]
  <2> TAKE a \in Cells
  <2> HAVE a < o
  <2>1. a # o
    BY <1>5 DEF Cells
  <2>2. Cell(tail, a) # Cell(tail, o) /\ Cell(tail, a) \in Cells
    BY <1>3, <1>4, <2>1, CellsDiffer, CellOf
  <2> QED
    BY <1>3, <1>6, <1>7, <2>2
<1>9. ring'[Cell(tail, o)] = <<usb.frame, usb.done>>
  BY <1>3, <1>4, <1>6, <1>7, CellOf
<1>10. WholeInv' /\ QueueInv'
  <2>1. WholeInv'
    BY <1>1, <1>7 DEF WholeInv
  <2>2. Pending' = Pending
    BY <1>3, <1>7 DEF Pending
  <2>3. usb.done + 1 <= LengthOf(usb.frame)
    BY <1>3, <1>4, LengthRange
  <2> QED
    BY <1>1, <1>3, <1>7, <2>1, <2>2, <2>3 DEF QueueInv, LengthOf
<1>11. Stands(off)'
  <2>1. ASSUME NEW i \in 1..Len(queue), NEW k \in 0..queue[i] - 1
        PROVE  ring'[Cell(tail, off[i - 1] + k)] = <<sent[i], k>>
    <3>1. off[i - 1] + k \in Cells /\ off[i - 1] + k < off[i] /\ off[i] <= off[Len(queue)]
      BY <1>1, <1>2, ByteBefore DEF Placed
    <3>2. off[i] \in Nat
      BY <1>4
    <3>3. off[i - 1] + k < o
      BY <1>4, <3>1, <3>2, Sizes DEF Cells
    <3> HIDE DEF o
    <3> QED
      BY <1>2, <1>8, <3>1, <3>3 DEF Placed, Stands
  <2>2. ASSUME NEW k \in 0..usb.done
        PROVE  ring'[Cell(tail, off[Len(queue)] + k)] = <<usb.frame, k>>
    <3>1. CASE k = usb.done
      BY <1>9, <3>1
    <3>2. CASE k # usb.done
      <4>1. k \in 0..usb.done - 1 /\ off[Len(queue)] + k < o /\ off[Len(queue)] + k \in Cells
        <5>1. PICK n \in Nat, m \in Nat : n = off[Len(queue)] /\ m = usb.done
          BY <1>4
        <5>2. k \in 0..m - 1 /\ n + k < n + m /\ n + k \in Nat
          BY <3>2, <5>1
        <5>3. n + m \in Cells
          BY <1>4, <5>1
        <5>4. n + k \in Cells
          BY <5>2, <5>3, Sizes DEF Cells
        <5> QED
          BY <5>1, <5>2, <5>4
      <4> HIDE DEF o
      <4> QED
        BY <1>2, <1>8, <4>1 DEF Placed, Stands
    <3> QED
      BY <3>1, <3>2
  <2>3. 0..usb'.done - 1 = 0..usb.done /\ head' = Cell(tail, off[Len(queue)] + usb'.done)
    BY <1>4, <1>5, <1>6, <1>7
  <2> QED
    BY <1>7, <2>1, <2>2, <2>3, Zenon DEF Stands
<1>12. Spaced(off, Len(queue))' /\ Ends(off)'
  BY <1>2, <1>7 DEF Placed, Spaced, Ends
<1> QED
  BY <1>7, <1>10, <1>11, <1>12 DEF Placed, RingInv

(* The frame is announced: it is the last of those in the queue.            *)
LEMMA AnnounceLine ==
    ASSUME Types, LineInv, Announce, ~ahead'
    PROVE  WholeInv' /\ QueueInv' /\ RingInv'
<1>1. WholeInv /\ QueueInv /\ RingInv
  BY DEF LineInv, Announce, history
<1>2. PICK off \in [0..Len(queue) -> Nat] : Placed(off)
  BY <1>1 DEF RingInv
<1> DEFINE n == Len(queue)
           len == LengthOf(usb.frame)
<1>3. /\ queue \in Seq(1..FrameLen) /\ n \in Nat /\ FrameLen \in Nat /\ len \in 1..FrameLen
      /\ usb # Idle /\ usb.done = len /\ sent \in Seq(Frames) /\ Len(sent) = n + 1
      /\ usb.frame = sent[n + 1]
  <2>1. len \in 1..FrameLen
    BY LengthRange
  <2>2. usb # Idle /\ usb.done = len
    BY DEF Announce, Storing, Announced
  <2> QED
    BY <1>1, <2>1, <2>2, Sizes DEF QueueInv, Pending, Types, RingTypes, LineTypes
<1>4. /\ queue' = Append(queue, len) /\ Len(queue') = n + 1 /\ queue'[n + 1] = len
      /\ \A i \in 1..n : queue'[i] = queue[i]
      /\ queue' \in Seq(1..FrameLen)
      /\ usb' = Idle /\ UNCHANGED <<ring, head, tail, saved, requests, sent, frame, torn>>
  <2>1. n < QueueLen
    BY <1>1, <1>3, Sizes DEF QueueInv
  <2>2. queue' = Append(queue, len)
    BY <2>1 DEF Announce
  <2> HIDE DEF len
  <2>3. /\ Append(queue, len) \in Seq(1..FrameLen) /\ Len(Append(queue, len)) = n + 1
        /\ \A i \in 1..n : Append(queue, len)[i] = queue[i]
        /\ Append(queue, len)[n + 1] = len
    BY <1>3, AppendFacts
  <2> QED
    BY <2>2, <2>3 DEF Announce, hostVars, history
<1>5. WholeInv' /\ QueueInv'
  <2>1. WholeInv'
    BY <1>1, <1>4 DEF WholeInv
  <2>2. Pending' = 0 /\ Pending = 1
    BY <1>3, <1>4 DEF Pending
  <2>3. \A i \in DOMAIN queue' : queue'[i] = LengthIn(sent'[i], requests')
    <3> TAKE i \in DOMAIN queue'
    <3>1. CASE i \in 1..n
      BY <1>1, <1>3, <1>4, <3>1 DEF QueueInv, LengthOf, LengthIn
    <3>2. CASE i = n + 1
      BY <1>3, <1>4, <3>2 DEF LengthOf, LengthIn
    <3> QED
      BY <1>3, <1>4, <3>1, <3>2
  <2> QED
    BY <1>1, <1>3, <1>4, <2>1, <2>2, <2>3 DEF QueueInv, LengthOf, LengthIn
<1>6. \A i \in 0..n : off[i] \in Nat /\ off[i] <= off[n]
  BY <1>1, <1>2, RoomLeft DEF Placed
<1>7. PICK past \in [0..Len(queue') -> Nat] : past[n + 1] = off[n] + len /\ \A i \in 0..n : past[i] = off[i]
  <2> DEFINE w == [i \in 0..n + 1 |-> IF i = n + 1 THEN off[n] + len ELSE off[i]]
  <2>1. \A i \in 0..n + 1 : i = n + 1 \/ i \in 0..n
    BY <1>3
  <2>2. off[n] + len \in Nat
    <3>1. n \in 0..n
      BY <1>3
    <3>2. off[n] \in Nat
      BY <1>6, <3>1, Zenon
    <3>3. len \in Nat
      BY <1>3
    <3> QED
      BY <3>2, <3>3
  <2>3. w \in [0..n + 1 -> Nat]
    BY <1>6, <2>1, <2>2
  <2>4. w[n + 1] = off[n] + len /\ \A i \in 0..n : w[i] = off[i]
    BY <1>3
  <2> HIDE DEF w
  <2> QED
    BY <1>4, <2>3, <2>4
<1>8. Spaced(past, n + 1)
  <2>1. past[0] = 0
    BY <1>2, <1>3, <1>7 DEF Placed, Spaced
  <2>2. ASSUME NEW i \in 0..n + 1, NEW j \in i..n + 1
        PROVE  past[i] <= past[j] /\ past[j] <= past[i] + (j - i) * FrameLen
    <3>1. CASE j \in 0..n
      <4>1. i \in 0..n /\ j \in i..n
        BY <1>3, <3>1
      <4> QED
        BY <1>2, <1>7, <4>1 DEF Placed, Spaced
    <3>2. CASE i = n + 1 /\ j = n + 1
      <4>1. past[n + 1] \in Nat
        <5>1. n + 1 \in 0..Len(queue')
          BY <1>3, <1>4
        <5> QED
          BY <5>1
      <4>2. 0 * FrameLen = 0 /\ (n + 1) - (n + 1) = 0
        BY <1>3
      <4> QED
        BY <3>2, <4>1, <4>2
    <3>3. CASE i \in 0..n /\ j = n + 1
      <4>1. n \in i..n /\ n - i \in Nat /\ j - i = (n - i) + 1
        BY <1>3, <3>3
      <4>2. off[i] <= off[n] /\ off[n] <= off[i] + (n - i) * FrameLen
        BY <1>2, <3>3, <4>1, Zenon DEF Placed, Spaced
      <4>3. (n - i) * FrameLen \in Nat /\ (j - i) * FrameLen = (n - i) * FrameLen + FrameLen
        BY <4>1, RoomGrows
      <4>4. off[i] \in Nat /\ off[n] \in Nat /\ past[i] = off[i] /\ past[j] = off[n] + len
        BY <1>3, <1>6, <1>7, <3>3, <4>1
      <4>5. len \in Nat /\ len <= FrameLen /\ FrameLen \in Nat
        BY <1>3
      <4>6. PICK p \in Nat : p = (n - i) * FrameLen
        BY <4>3
      <4>7. off[n] <= off[i] + p /\ (j - i) * FrameLen = p + FrameLen
        BY <4>2, <4>3, <4>6, Zenon
      <4>8. off[i] <= off[n] + len /\ off[n] + len <= off[i] + (p + FrameLen)
        BY <4>2, <4>4, <4>5, <4>7
      <4> QED
        BY <4>4, <4>7, <4>8, Zenon
    <3> QED
      BY <1>3, <3>1, <3>2, <3>3
  <2> QED
    BY <2>1, <2>2 DEF Spaced
<1>9. Ends(past)'
  <2>1. ASSUME NEW i \in 1..n + 1
        PROVE  past[i] = past[i - 1] + queue'[i]
    <3>1. CASE i = n + 1
      BY <1>3, <1>4, <1>7, <3>1
    <3>2. CASE i \in 1..n
      <4>1. i \in 0..n /\ i - 1 \in 0..n
        BY <1>3, <3>2
      <4> QED
        BY <1>2, <1>4, <1>7, <3>2, <4>1 DEF Placed, Ends
    <3> QED
      BY <1>3, <3>1, <3>2
  <2> QED
    BY <1>4, <2>1 DEF Ends
<1>10. Stands(past)'
  <2>1. ASSUME NEW i \in 1..n + 1, NEW k \in 0..queue'[i] - 1
        PROVE  ring[Cell(tail, past[i - 1] + k)] = <<sent[i], k>>
    <3>1. CASE i = n + 1
      <4>1. k \in 0..usb.done - 1 /\ past[i - 1] = off[n] /\ sent[i] = usb.frame
        BY <1>3, <1>4, <1>7, <3>1
      <4> QED
        BY <1>2, <4>1 DEF Placed, Stands
    <3>2. CASE i \in 1..n
      <4>1. i - 1 \in 0..n /\ queue'[i] = queue[i]
        BY <1>3, <1>4, <3>2
      <4>2. k \in 0..queue[i] - 1 /\ past[i - 1] = off[i - 1]
        BY <1>7, <4>1
      <4> QED
        BY <1>2, <3>2, <4>2 DEF Placed, Stands
    <3> QED
      BY <1>3, <3>1, <3>2
  <2>2. usb'.done = 0 /\ past[n + 1] + 0 = off[n] + usb.done
    BY <1>3, <1>4, <1>6, <1>7 DEF Idle
  <2>3. head = Cell(tail, past[n + 1] + 0)
    BY <1>2, <2>2 DEF Placed, Stands
  <2>4. \A k \in 0..0 - 1 : ring[Cell(tail, past[n + 1] + k)] = <<usb'.frame, k>>
    OBVIOUS
  <2>5. ring' = ring /\ tail' = tail /\ head' = head /\ sent' = sent /\ Len(queue') = n + 1
    BY <1>4
  <2> HIDE DEF n
  <2>6. \A i \in 1..Len(queue') : \A k \in 0..queue'[i] - 1 :
           ring'[Cell(tail', past[i - 1] + k)] = <<sent'[i], k>>
    BY <2>1, <2>5, Zenon
  <2>7. \A k \in 0..usb'.done - 1 : ring'[Cell(tail', past[Len(queue')] + k)] = <<usb'.frame, k>>
    BY <2>2, <2>4
  <2>8. head' = Cell(tail', past[Len(queue')] + usb'.done)
    BY <2>2, <2>3, <2>5, Zenon
  <2> QED
    BY <2>6, <2>7, <2>8, Zenon DEF Stands
<1> QED
  BY <1>4, <1>5, <1>7, <1>8, <1>9, <1>10 DEF Placed, RingInv

(* The parser takes the frame at the tail, whole.                           *)
LEMMA TakeFirst ==
    ASSUME Types, WholeInv, QueueInv, RingInv, Take
    PROVE  /\ sent # <<>> /\ Len(sent) \in Nat /\ sent[1] \in Frames
           /\ frame' = sent[1] /\ sent' = Tail(sent) /\ torn' = torn
           /\ Len(sent') = Len(sent) - 1 /\ \A i \in 1..Len(sent) - 1 : sent'[i] = sent[i + 1]
           /\ tail' = Cell(tail, queue[1]) /\ ProtocolReceivedData(sent[1])
           /\ queue # <<>> /\ queue' = Tail(queue)
           /\ UNCHANGED <<hostVars, usb, ring, head, saved, ahead>>
<1>1. PICK off \in [0..Len(queue) -> Nat] : Placed(off)
  BY DEF RingInv
<1> DEFINE q == queue[1]
           o == off[Len(queue)] + usb.done
           cells == Got(Head(queue))
<1>2. /\ queue \in Seq(1..FrameLen) /\ queue # <<>> /\ sent \in Seq(Frames)
      /\ ring \in [Cells -> Taken \X (0..FrameLen)] /\ tail \in Cells
  BY DEF Take, Types, RingTypes, LineTypes
<1>3. /\ Head(queue) = q /\ q \in 1..FrameLen /\ Len(queue) \in Nat /\ Len(queue) > 0
  <2>1. Head(queue) = queue[1] /\ Head(queue) \in 1..FrameLen /\ Len(queue) \in Nat /\ Len(queue) > 0
    BY <1>2, TailFacts, Zenon
  <2> QED
    BY <2>1
<1>4. Len(sent) \in Nat /\ Len(sent) > 0 /\ sent # <<>> /\ sent[1] \in Frames /\ q = LengthOf(sent[1])
  <2>1. Len(sent) \in Nat /\ Len(sent) >= Len(queue)
    BY <1>2, <1>3 DEF QueueInv, Pending
  <2>2. Len(sent) > 0 /\ 1 \in DOMAIN queue
    BY <1>2, <1>3, <2>1
  <2> QED
    BY <1>2, <2>1, <2>2 DEF QueueInv
<1>5. /\ \A i \in 0..Len(queue) : off[i] \in Cells /\ off[i] \in Nat /\ off[i] <= off[Len(queue)]
      /\ o \in Cells /\ off[Len(queue)] \in Nat /\ usb.done \in Nat
  BY <1>1, RoomLeft DEF Placed
<1>6. off[0] = 0 /\ off[1] = q /\ off[1] <= off[Len(queue)] /\ q \in Cells
  <2>1. 1 \in 1..Len(queue) /\ 1 \in 0..Len(queue) /\ 1 - 1 = 0
    BY <1>3
  <2>2. off[0] = 0 /\ off[1] = off[1 - 1] + queue[1] /\ off[1] \in Cells
    BY <1>1, <1>5, <2>1, Zenon DEF Placed, Spaced, Ends
  <2> QED
    BY <1>3, <1>5, <2>1, <2>2
<1>7. Stored = o /\ q <= Stored /\ o \in Nat
  <2>1. head = Cell(tail, o)
    BY <1>1 DEF Placed, Stands
  <2>2. Stored = o
    BY <1>2, <1>5, <2>1, Distance, Zenon DEF Stored
  <2> QED
    BY <1>3, <1>5, <1>6, <2>2
<1>8. cells = [k \in 1..q |-> ring[(tail + k - 1) % PARSER_CACHE_LEN]]
  BY <1>3, <1>7 DEF Got
<1>9. \A k \in 1..q : ring[(tail + k - 1) % PARSER_CACHE_LEN] = <<sent[1], k - 1>>
  <2> TAKE k \in 1..q
  <2>1. k - 1 \in 0..queue[1] - 1 /\ 1 \in 1..Len(queue) /\ 1 - 1 = 0
    BY <1>3
  <2>2. ring[Cell(tail, off[1 - 1] + (k - 1))] = <<sent[1], k - 1>>
    BY <1>1, <2>1, Zenon DEF Placed, Stands
  <2>3. off[1 - 1] + (k - 1) = k - 1
    BY <1>6, <2>1
  <2>4. tail + (k - 1) = tail + k - 1
    BY <1>2, <1>3, Sizes DEF Cells
  <2> QED
    BY <2>2, <2>3, <2>4, Zenon DEF Cell
<1>10. Len(cells) = q /\ \A k \in 1..q : cells[k] = <<sent[1], k - 1>>
  BY <1>3, <1>8, <1>9
<1> HIDE DEF cells
<1>11. cells[1][1] = sent[1] /\ sent[1] # NoFrame
  <2>1. cells[1] = <<sent[1], 1 - 1>>
    BY <1>3, <1>10
  <2> QED
    BY <1>4, <2>1 DEF Frames, NoFrame
<1>12. IsFrame(cells, Head(queue))
  BY <1>3, <1>4, <1>10, <1>11 DEF IsFrame
<1>13. /\ frame' = sent[1] /\ sent' = Tail(sent) /\ torn' = torn /\ ProtocolReceivedData(sent[1])
       /\ tail' = TailAfter(Len(cells)) /\ queue' = Tail(queue)
       /\ UNCHANGED <<hostVars, usb, ring, head, saved, ahead>>
  BY <1>11, <1>12 DEF Take, cells
<1>14. tail' = Cell(tail, queue[1])
  BY <1>10, <1>13 DEF TailAfter, Cell
<1> QED
  BY <1>2, <1>4, <1>13, <1>14, TailFacts

LEMMA TakeLine ==
    ASSUME Types, LineInv, Take, ~ahead'
    PROVE  WholeInv' /\ QueueInv' /\ RingInv'
<1>1. WholeInv /\ QueueInv /\ RingInv
  BY DEF LineInv, Take
<1>2. PICK off \in [0..Len(queue) -> Nat] : Placed(off)
  BY <1>1 DEF RingInv
<1> DEFINE n == Len(queue)
<1>3. /\ sent # <<>> /\ Len(sent) \in Nat /\ sent[1] \in Frames
      /\ frame' = sent[1] /\ sent' = Tail(sent) /\ torn' = torn
      /\ Len(sent') = Len(sent) - 1 /\ \A i \in 1..Len(sent) - 1 : sent'[i] = sent[i + 1]
      /\ tail' = Cell(tail, queue[1]) /\ queue # <<>> /\ queue' = Tail(queue)
      /\ UNCHANGED <<requests, usb, ring, head, saved>>
  BY <1>1, TakeFirst DEF hostVars
<1>4. /\ queue \in Seq(1..FrameLen) /\ n \in Nat /\ n > 0 /\ Len(queue') = n - 1
      /\ \A i \in 1..n - 1 : queue'[i] = queue[i + 1]
      /\ queue' \in Seq(1..FrameLen) /\ sent \in Seq(Frames) /\ tail \in Cells
      /\ \A i \in 1..n : queue[i] \in Nat
  <2>1. queue \in Seq(1..FrameLen) /\ sent \in Seq(Frames) /\ tail \in Cells
    BY DEF Types, RingTypes, LineTypes
  <2>2. \A i \in 1..n : queue[i] \in 1..FrameLen
    BY <2>1
  <2>3. \A i \in 1..n : queue[i] \in Nat
    BY <2>2
  <2> QED
    BY <1>3, <2>1, <2>3, TailFacts
<1>5. WholeInv'
  <2>1. \A i \in 1..Len(sent) - 1 : i + 1 \in DOMAIN sent
    BY <1>3, <1>4
  <2>2. \A i \in DOMAIN sent' : Whole(sent'[i], requests)
    BY <1>1, <1>3, <1>4, <2>1, TailFacts DEF WholeInv
  <2>3. Whole(sent[1], requests)
    BY <1>1, <1>3, <1>4 DEF WholeInv
  <2> QED
    BY <1>3, <2>2, <2>3 DEF WholeInv
<1>6. QueueInv'
  <2>1. Pending' = Pending /\ Pending \in Nat
    BY <1>3 DEF Pending
  <2>2. \A i \in DOMAIN queue' : queue'[i] = LengthIn(sent'[i], requests')
    <3> TAKE i \in DOMAIN queue'
    <3>1. i \in 1..n - 1 /\ i + 1 \in DOMAIN queue /\ i \in 1..Len(sent) - 1
      BY <1>1, <1>3, <1>4, <2>1 DEF QueueInv
    <3> QED
      BY <1>1, <1>3, <1>4, <3>1 DEF QueueInv, LengthOf, LengthIn
  <2>3. usb # Idle => usb.frame = sent'[Len(sent')]
    <3> HAVE usb # Idle
    <3>1. usb.frame = sent[Len(sent)] /\ Len(sent) = n + 1
      BY <1>1 DEF QueueInv, Pending
    <3>2. Len(sent') \in 1..Len(sent) - 1 /\ Len(sent') + 1 = Len(sent)
      BY <1>3, <1>4, <3>1
    <3> QED
      BY <1>3, <3>1, <3>2
  <2>4. Len(sent') < QueueLen /\ Len(sent') = Len(queue') + Pending'
    BY <1>1, <1>3, <1>4, <2>1, Sizes DEF QueueInv
  <2> QED
    BY <1>1, <1>3, <2>2, <2>3, <2>4 DEF QueueInv, LengthOf, LengthIn
<1>7. /\ \A i \in 0..n : off[i] \in Cells /\ off[i] \in Nat /\ off[i] <= off[n]
      /\ off[n] + usb.done \in Cells /\ off[n] \in Nat /\ usb.done \in Nat
  BY <1>1, <1>2, RoomLeft DEF Placed
<1>8. off[0] = 0 /\ off[1] = queue[1]
  <2>1. 1 \in 1..n /\ 1 - 1 = 0 /\ queue[1] \in Nat
    <3>1. 1 \in 1..n
      BY <1>4
    <3>2. queue[1] \in Nat
      BY <1>4, <3>1, Zenon
    <3> QED
      BY <3>1, <3>2
  <2>2. off[0] = 0 /\ off[1] = off[1 - 1] + queue[1]
    BY <1>2, <2>1, Zenon DEF Placed, Spaced, Ends
  <2> QED
    BY <2>1, <2>2
<1>9. \A i \in 0..n - 1 : i + 1 \in 0..n /\ off[i + 1] \in Nat /\ off[1] \in Nat /\ off[1] <= off[i + 1]
  <2> TAKE i \in 0..n - 1
  <2>1. i + 1 \in 0..n /\ 1 \in 0..n /\ i + 1 \in 1..n
    BY <1>4
  <2>2. off[1] <= off[i + 1]
    BY <1>2, <2>1, Zenon DEF Placed, Spaced
  <2> QED
    BY <1>7, <2>1, <2>2, Zenon
<1>10. PICK rest \in [0..Len(queue') -> Nat] : \A i \in 0..n - 1 : rest[i] = off[i + 1] - off[1]
  <2> DEFINE w == [i \in 0..n - 1 |-> off[i + 1] - off[1]]
  <2>1. \A i \in 0..n - 1 : off[i + 1] - off[1] \in Nat
    BY <1>9
  <2>2. w \in [0..n - 1 -> Nat]
    BY <2>1
  <2>3. \A i \in 0..n - 1 : w[i] = off[i + 1] - off[1]
    OBVIOUS
  <2> HIDE DEF w
  <2> QED
    BY <1>4, <2>2, <2>3
<1>11. Spaced(rest, n - 1)
  <2>1. rest[0] = 0
    <3>1. 0 \in 0..n - 1 /\ 0 + 1 = 1
      BY <1>4
    <3>2. rest[0] = off[0 + 1] - off[1]
      BY <1>10, <3>1
    <3> QED
      BY <1>9, <3>1, <3>2
  <2>2. ASSUME NEW i \in 0..n - 1, NEW j \in i..n - 1
        PROVE  rest[i] <= rest[j] /\ rest[j] <= rest[i] + (j - i) * FrameLen
    <3>1. i + 1 \in 0..n /\ j + 1 \in i + 1..n /\ j \in 0..n - 1 /\ (j + 1) - (i + 1) = j - i
          /\ j - i \in Nat
      BY <1>4
    <3>2. off[i + 1] <= off[j + 1] /\ off[j + 1] <= off[i + 1] + ((j + 1) - (i + 1)) * FrameLen
      BY <1>2, <3>1, Zenon DEF Placed, Spaced
    <3>3. rest[i] = off[i + 1] - off[1] /\ rest[j] = off[j + 1] - off[1]
      BY <1>10, <3>1, Zenon
    <3>4. off[i + 1] \in Nat /\ off[j + 1] \in Nat /\ off[1] \in Nat
      BY <1>9, <3>1
    <3>5. PICK p \in Nat : p = (j - i) * FrameLen
      BY <3>1, RoomGrows
    <3>6. off[j + 1] <= off[i + 1] + p
      BY <3>1, <3>2, <3>5, Zenon
    <3>7. rest[i] <= rest[j] /\ rest[j] <= rest[i] + p
      BY <3>2, <3>3, <3>4, <3>6
    <3> QED
      BY <3>5, <3>7, Zenon
  <2> QED
    BY <2>1, <2>2 DEF Spaced
<1>12. Ends(rest)'
  <2>1. ASSUME NEW i \in 1..n - 1
        PROVE  rest[i] = rest[i - 1] + queue'[i]
    <3>1. i \in 0..n - 1 /\ i - 1 \in 0..n - 1 /\ i + 1 \in 1..n /\ (i + 1) - 1 = i /\ (i - 1) + 1 = i
      BY <1>4
    <3>2. off[i + 1] = off[(i + 1) - 1] + queue[i + 1]
      BY <1>2, <3>1, Zenon DEF Placed, Ends
    <3>3. rest[i] = off[i + 1] - off[1] /\ rest[i - 1] = off[i] - off[1]
      BY <1>10, <3>1
    <3>4. off[i] \in Nat /\ off[1] \in Nat /\ queue[i + 1] \in Nat /\ queue'[i] = queue[i + 1]
      <4>1. queue[i + 1] \in Nat /\ queue'[i] = queue[i + 1]
        BY <1>4, <3>1, Zenon
      <4>2. off[(i - 1) + 1] \in Nat /\ off[1] \in Nat
        BY <1>9, <3>1, Zenon
      <4> QED
        BY <3>1, <4>1, <4>2
    <3> QED
      BY <3>1, <3>2, <3>3, <3>4
  <2> QED
    BY <1>4, <2>1 DEF Ends
<1>13. \A i \in 0..n - 1 : \A b \in Nat : off[i + 1] + b \in Cells =>
          Cell(tail', rest[i] + b) = Cell(tail, off[i + 1] + b)
  <2> TAKE i \in 0..n - 1
  <2> TAKE b \in Nat
  <2> HAVE off[i + 1] + b \in Cells
  <2>1. off[1] \in Nat /\ off[i + 1] \in Nat /\ off[1] <= off[i + 1] /\ rest[i] = off[i + 1] - off[1]
    BY <1>9, <1>10
  <2>2. rest[i] + b \in Nat /\ off[1] + (rest[i] + b) = off[i + 1] + b
    BY <2>1
  <2>3. tail' = Cell(tail, off[1])
    BY <1>3, <1>8
  <2> QED
    BY <1>4, <2>1, <2>2, <2>3, ShiftedCell
<1>14. Stands(rest)'
  <2>1. ASSUME NEW i \in 1..n - 1, NEW k \in 0..queue'[i] - 1
        PROVE  ring[Cell(tail', rest[i - 1] + k)] = <<sent'[i], k>>
    <3>1. i + 1 \in 1..n /\ i - 1 \in 0..n - 1 /\ (i + 1) - 1 = i /\ (i - 1) + 1 = i
          /\ queue'[i] = queue[i + 1] /\ i \in 1..Len(sent) - 1
      BY <1>1, <1>3, <1>4 DEF QueueInv, Pending
    <3>2. k \in 0..queue[i + 1] - 1 /\ k \in Nat
      BY <3>1
    <3>3. off[(i + 1) - 1] + k \in Cells /\ ring[Cell(tail, off[(i + 1) - 1] + k)] = <<sent[i + 1], k>>
      BY <1>1, <1>2, <3>1, <3>2, ByteBefore, Zenon DEF Placed, Stands
    <3>4. off[i] + k \in Cells /\ ring[Cell(tail, off[i] + k)] = <<sent[i + 1], k>>
      BY <3>1, <3>3
    <3>5. Cell(tail', rest[i - 1] + k) = Cell(tail, off[(i - 1) + 1] + k)
      BY <1>13, <3>1, <3>2, <3>4
    <3> QED
      BY <1>3, <3>1, <3>4, <3>5
  <2>2. n - 1 \in 0..n - 1 /\ (n - 1) + 1 = n
    BY <1>4
  <2>3. \A b \in Nat : off[n] + b \in Cells => Cell(tail', rest[n - 1] + b) = Cell(tail, off[n] + b)
    BY <1>13, <2>2
  <2>4. ASSUME NEW k \in 0..usb.done - 1
        PROVE  ring[Cell(tail', rest[n - 1] + k)] = <<usb.frame, k>>
    <3>1. k \in Nat /\ off[n] + k \in Cells
      BY <1>7, Sizes DEF Cells
    <3>2. ring[Cell(tail, off[n] + k)] = <<usb.frame, k>>
      BY <1>2 DEF Placed, Stands
    <3> QED
      BY <2>3, <3>1, <3>2
  <2>5. head = Cell(tail', rest[n - 1] + usb.done)
    BY <1>2, <1>7, <2>3 DEF Placed, Stands
  <2>6. ring' = ring /\ head' = head /\ usb' = usb /\ Len(queue') = n - 1
    BY <1>3, <1>4
  <2> HIDE DEF n
  <2> QED
    BY <2>1, <2>4, <2>5, <2>6, Zenon DEF Stands
<1>15. Spaced(rest, Len(queue))'
  BY <1>4, <1>11 DEF Spaced
<1> QED
  BY <1>5, <1>6, <1>10, <1>12, <1>14, <1>15 DEF Placed, RingInv

LEMMA StaysLine ==
    ASSUME Types, LineInv, Return \/ FileOver \/ UNCHANGED vars, ~ahead'
    PROVE  WholeInv' /\ QueueInv' /\ RingInv'
<1>1. UNCHANGED <<requests, usb, ring, head, tail, saved, queue, sent, frame, torn, ahead>>
  BY DEF Return, FileOver, vars, hostVars, ringVars, history
<1>2. WholeInv /\ QueueInv /\ RingInv
  BY <1>1 DEF LineInv
<1>3. PICK off \in [0..Len(queue) -> Nat] : Placed(off)
  BY <1>2 DEF RingInv
<1>4. Placed(off)'
  BY <1>1, <1>3 DEF Placed, Spaced, Ends, Stands
<1> QED
  BY <1>1, <1>2, <1>4 DEF WholeInv, QueueInv, Pending, LengthOf, RingInv

LEMMA NextLine ==
    ASSUME Types, LineInv, [Next]_vars
    PROVE  LineInv'
<1> SUFFICES ASSUME ~ahead' PROVE WholeInv' /\ QueueInv' /\ RingInv'
  BY DEF LineInv
<1>1. 1..MaxChunks \subseteq 1..MaxTotal
  BY Sizes
<1>2. ASSUME DropOldest PROVE FALSE
  BY <1>2 DEF DropOldest, LineInv, QueueInv, history
<1>3. CASE Next
  <2>1. ASSUME NEW kind \in Kinds, NEW n \in 1..MaxTotal, Begin(kind, n)
        PROVE  WholeInv' /\ QueueInv' /\ RingInv'
    BY <2>1, BeginLine DEF LineInv
  <2>2. CASE GoOn
    BY <2>2, GoOnLine DEF LineInv
  <2> QED
    BY <1>1, <1>2, <1>3, <2>1, <2>2, PutByteLine, AnnounceLine, TakeLine, StaysLine,
       Zenon DEF Next, Kinds, Finished
<1> QED
  BY <1>3, StaysLine

LEMMA AlwaysLine == Spec => [](Types /\ LineInv)
<1>1. Init => Types /\ LineInv
  BY InitTypes, InitLine
<1>2. (Types /\ LineInv) /\ [Next]_vars => (Types /\ LineInv)'
  BY NextTypes, NextLine
<1> QED
  BY <1>1, <1>2, PTL DEF Spec

(* The bytes a queued length speaks of are in the ring: the chunk that      *)
(* DataParserTask reads is a frame of the host.                             *)
THEOREM FramesStayIntact == Spec => []FramesIntact
<1>1. Types /\ LineInv => FramesIntact
  BY DEF Types, LineInv, QueueInv, FramesIntact
<1> QED
  BY <1>1, AlwaysLine, PTL

(* The receive path implements the line of frames: DataParserTask takes     *)
(* what usbd_cdc_DataOut was given first.                                   *)
THEOREM ReceivePathIsFrameLine == Spec => IsFrameLine
<1>1. Init => Line!Init
  BY DEF Init, Line!Init, Line!Nothing, NoFrame
<1>2. Types /\ LineInv /\ [Next]_vars => [Line!Next \/ ahead']_<<sent, frame>>
  <2> SUFFICES ASSUME Types, LineInv, [Next]_vars, ~ahead'
               PROVE  Line!Next \/ UNCHANGED <<sent, frame>>
    OBVIOUS
  <2>1. ASSUME NEW f \in Frames, Transfer(f)
        PROVE  Line!Send
    BY <2>1 DEF Transfer, Line!Send
  <2>2. ASSUME NEW kind \in Kinds, NEW n \in 1..MaxTotal, Begin(kind, n)
        PROVE  Line!Next
    BY <2>1, <2>2, BeginFrame DEF Line!Next
  <2>3. CASE GoOn
    BY <2>1, <2>3, GoOnFrame DEF Line!Next
  <2>4. CASE Take
    <3>1. WholeInv /\ QueueInv /\ RingInv
      BY <2>4 DEF LineInv, Take
    <3>2. sent # <<>> /\ frame' = sent[1] /\ sent' = Tail(sent)
      BY <2>4, <3>1, TakeFirst
    <3>3. sent[1] = Head(sent)
      BY <3>2 DEF Types, LineTypes
    <3> QED
      BY <3>2, <3>3 DEF Line!Next, Line!Deliver
  <2>5. CASE PutByte \/ DropOldest \/ Announce \/ Return \/ FileOver \/ UNCHANGED vars
    BY <2>5 DEF PutByte, DropOldest, Announce, Return, FileOver, vars, history
  <2>6. 1..MaxChunks \subseteq 1..MaxTotal
    BY Sizes
  <2> QED
    BY <2>2, <2>3, <2>4, <2>5, <2>6, Zenon DEF Next, Kinds, Finished
<1> QED
  BY <1>1, <1>2, AlwaysLine, PTL DEF Spec, IsFrameLine

-----------------------------------------------------------------------------
(* The order of the frames.                                                 *)

(* The host sends b next after a. *)
Follows(a, b) ==
    \/ b.req = a.req /\ b.index = a.index + 1
    \/ b.req = a.req + 1 /\ b.index = 0

UpTo(a, b) == a.req < b.req \/ (a.req = b.req /\ a.index <= b.index)

Newest == IF sent = <<>> THEN frame ELSE sent[Len(sent)]

(* The host goes from frame to frame, and a request whose first frame was   *)
(* sent behind another frame is spoilt.                                     *)
OrderInv ==
    /\ sent # <<>> => Follows(frame, sent[1])
    /\ \A i \in 1..Len(sent) - 1 : Follows(sent[i], sent[i + 1])
    /\ Newest.req = Len(requests) /\ (requests # <<>> => Newest.index = next - 1)
    /\ \A i \in DOMAIN sent : i > 1 /\ sent[i].index = 0 => sent[i].req \in spoilt

LEMMA TransferOrder ==
    ASSUME Types, LineInv, OrderInv, NEW f \in Frames, Transfer(f), ~ahead', Whole(f, requests'),
           requests' \in Seq(Requests), DOMAIN requests \subseteq DOMAIN requests',
           \A r \in DOMAIN requests : requests'[r] = requests[r],
           Follows(Newest, f), f.req = Len(requests'), spoilt \subseteq spoilt',
           sent # <<>> /\ f.index = 0 => f.req \in spoilt'
    PROVE  OrderInv'
<1>1. /\ sent' = Append(sent, f) /\ frame' = frame /\ Len(sent') = Len(sent) + 1
      /\ sent' \in Seq(Frames) /\ sent'[Len(sent')] = f
      /\ \A i \in 1..Len(sent) : sent'[i] = sent[i]
  BY TransferLine
<1>2. sent \in Seq(Frames) /\ Len(sent) \in Nat /\ next' = f.index + 1 /\ f.index \in Nat
  BY DEF Types, LineTypes, Transfer, Frames
<1>3. sent' # <<>>
  BY <1>1, <1>2
<1>4. Follows(frame', sent'[1])
  <2>1. CASE sent = <<>>
    <3>1. Len(sent) = 0 /\ sent'[1] = f
      BY <1>1, <2>1
    <3> QED
      BY <1>1, <2>1, <3>1 DEF Newest
  <2>2. CASE sent # <<>>
    <3>1. 1 \in 1..Len(sent)
      BY <1>2, <2>2
    <3> QED
      BY <1>1, <2>2, <3>1 DEF OrderInv
  <2> QED
    BY <2>1, <2>2
<1>5. \A i \in 1..Len(sent') - 1 : Follows(sent'[i], sent'[i + 1])
  <2> TAKE i \in 1..Len(sent') - 1
  <2>1. CASE i = Len(sent)
    <3>1. sent # <<>> /\ i \in 1..Len(sent) /\ sent'[i + 1] = f
      BY <1>1, <1>2, <2>1
    <3> QED
      BY <1>1, <2>1, <3>1 DEF Newest
  <2>2. CASE i # Len(sent)
    <3>1. i \in 1..Len(sent) - 1 /\ i \in 1..Len(sent) /\ i + 1 \in 1..Len(sent)
      BY <1>1, <1>2, <2>2
    <3> QED
      BY <1>1, <3>1 DEF OrderInv
  <2> QED
    BY <2>1, <2>2
<1>6. Newest'.req = Len(requests') /\ Newest'.index = next' - 1
  BY <1>1, <1>2, <1>3 DEF Newest
<1>7. \A i \in DOMAIN sent' : i > 1 /\ sent'[i].index = 0 => sent'[i].req \in spoilt'
  <2> TAKE i \in DOMAIN sent'
  <2>1. CASE i = Len(sent) + 1
    BY <1>1, <1>2, <2>1
  <2>2. CASE i \in 1..Len(sent)
    <3>1. i \in DOMAIN sent /\ sent'[i] = sent[i]
      BY <1>1, <1>2, <2>2
    <3> QED
      BY <3>1 DEF OrderInv
  <2> QED
    BY <1>1, <1>2, <2>1, <2>2
<1> QED
  BY <1>3, <1>4, <1>5, <1>6, <1>7 DEF OrderInv

LEMMA BeginOrder ==
    ASSUME Types, LineInv, OrderInv, NEW kind \in Kinds, NEW n \in 1..MaxTotal, Begin(kind, n), ~ahead'
    PROVE  OrderInv'
<1> DEFINE f == [req |-> Len(requests) + 1, index |-> 0]
<1>1. /\ f \in Frames /\ Transfer(f) /\ Whole(f, requests')
      /\ requests' \in Seq(Requests) /\ DOMAIN requests \subseteq DOMAIN requests'
      /\ \A r \in DOMAIN requests : requests'[r] = requests[r]
      /\ Len(requests') = Len(requests) + 1
  BY BeginFrame, Zenon
<1>2. Follows(Newest, f) /\ f.req = Len(requests')
  BY <1>1 DEF OrderInv, Follows
<1>3. spoilt \subseteq spoilt' /\ (sent # <<>> => f.req \in spoilt')
  BY <1>1 DEF Begin
<1> HIDE DEF f
<1> QED
  BY <1>1, <1>2, <1>3, TransferOrder, Zenon

LEMMA GoOnOrder ==
    ASSUME Types, LineInv, OrderInv, GoOn, ~ahead'
    PROVE  OrderInv'
<1> DEFINE f == [req |-> Len(requests), index |-> next]
<1>1. f \in Frames /\ Transfer(f) /\ Whole(f, requests') /\ requests' = requests
  BY GoOnFrame, Zenon
<1>2. requests # <<>> /\ spoilt' = spoilt /\ requests \in Seq(Requests) /\ next \in Int
  BY DEF GoOn, Types, HostTypes
<1>3. Follows(Newest, f) /\ f.req = Len(requests')
  BY <1>1, <1>2 DEF OrderInv, Follows
<1>4. sent # <<>> /\ f.index = 0 => FALSE
  <2>1. Newest.index = next - 1
    BY <1>2 DEF OrderInv
  <2>2. sent # <<>> => Newest.index \in Nat
    <3> HAVE sent # <<>>
    <3>1. sent \in Seq(Frames) /\ Len(sent) \in 1..Len(sent)
      BY DEF Types, LineTypes
    <3>2. sent[Len(sent)] \in Frames
      BY <3>1
    <3> QED
      BY <3>2 DEF Newest, Frames
  <2> QED
    BY <1>2, <2>1, <2>2
<1> HIDE DEF f
<1>5. DOMAIN requests \subseteq DOMAIN requests' /\ \A r \in DOMAIN requests : requests'[r] = requests[r]
  BY <1>1
<1>6. spoilt \subseteq spoilt' /\ requests' \in Seq(Requests)
  BY <1>1, <1>2
<1> QED
  BY <1>1, <1>3, <1>4, <1>5, <1>6, TransferOrder, Zenon

LEMMA TakeOrder ==
    ASSUME Types, LineInv, OrderInv, Take, ~ahead'
    PROVE  OrderInv' /\ spoilt \subseteq spoilt'
<1>1. WholeInv /\ QueueInv /\ RingInv
  BY DEF LineInv, Take
<1>2. /\ sent # <<>> /\ Len(sent) \in Nat /\ sent[1] \in Frames
      /\ frame' = sent[1] /\ Len(sent') = Len(sent) - 1 /\ sent' = Tail(sent)
      /\ \A i \in 1..Len(sent) - 1 : sent'[i] = sent[i + 1]
      /\ ProtocolReceivedData(sent[1])
      /\ UNCHANGED <<requests, next>>
  BY <1>1, TakeFirst DEF hostVars
<1>3. spoilt \subseteq spoilt'
  BY <1>2 DEF ProtocolReceivedData
<1>4. sent \in Seq(Frames) /\ sent' \in Seq(Frames)
  BY <1>2, TailFacts DEF Types, LineTypes
<1>5. sent' # <<>> => Follows(frame', sent'[1])
  <2> HAVE sent' # <<>>
  <2>1. 1 \in 1..Len(sent) - 1 /\ 1 + 1 = 2
    BY <1>2, <1>4
  <2> QED
    BY <1>2, <2>1 DEF OrderInv
<1>6. \A i \in 1..Len(sent') - 1 : Follows(sent'[i], sent'[i + 1])
  <2> TAKE i \in 1..Len(sent') - 1
  <2>1. i \in 1..Len(sent) - 1 /\ i + 1 \in 1..Len(sent) - 1
    BY <1>2
  <2> QED
    BY <1>2, <2>1 DEF OrderInv
<1>7. Newest' = Newest
  <2>1. CASE sent' = <<>>
    <3>1. Len(sent) = 1
      BY <1>2, <1>4, <2>1
    <3> QED
      BY <1>2, <2>1, <3>1 DEF Newest
  <2>2. CASE sent' # <<>>
    <3>1. Len(sent') \in 1..Len(sent) - 1 /\ Len(sent') + 1 = Len(sent)
      BY <1>2, <1>4, <2>2
    <3> QED
      BY <1>2, <2>2, <3>1 DEF Newest
  <2> QED
    BY <2>1, <2>2
<1>8. \A i \in DOMAIN sent' : i > 1 /\ sent'[i].index = 0 => sent'[i].req \in spoilt'
  <2> TAKE i \in DOMAIN sent'
  <2>1. i \in 1..Len(sent) - 1 /\ i + 1 \in DOMAIN sent /\ sent'[i] = sent[i + 1] /\ i + 1 > 1
    BY <1>2, <1>4
  <2> QED
    BY <1>3, <2>1 DEF OrderInv
<1> QED
  BY <1>2, <1>3, <1>5, <1>6, <1>7, <1>8 DEF OrderInv

(* Frames that came up to the last one are none of those that follow.       *)
LEMMA LaterFrame ==
    ASSUME frame \in Taken, NEW f \in Frames, Follows(frame, f)
    PROVE  \A g \in Frames : UpTo(g, frame) => UpTo(g, f) /\ g # f
  BY DEF Follows, UpTo, Frames, Taken, NoFrame

-----------------------------------------------------------------------------
(* The packets.                                                             *)

(* A packet that is kept or was handed on came up to the last frame, and is *)
(* in one place only.                                                       *)
PacketsInv ==
    /\ total = 0 <=> packets = <<>>
    /\ \A i \in Received : UpTo(packets[i], frame)
    /\ \A i, j \in Received : packets[i] = packets[j] => i = j
    /\ \A k \in DOMAIN handled : \A i \in DOMAIN handled[k].data :
          /\ UpTo(handled[k].data[i], frame)
          /\ \A j \in Received : packets[j] # handled[k].data[i]
    /\ NothingTwice

LEMMA HandledRange ==
    ASSUME Types, NEW k \in DOMAIN handled
    PROVE  /\ handled[k].req \in 1..MaxRequests
           /\ \A i \in DOMAIN handled[k].data : handled[k].data[i] \in Frames
<1>1. handled \in Seq(Handled)
  BY DEF Types, ParserTypes
<1>2. handled[k] \in Handled
  BY <1>1
<1>3. PICK n \in 0..MAX_PACKETS : handled[k].data \in [1..n -> Frames]
  BY <1>2 DEF Handled
<1> QED
  BY <1>2, <1>3 DEF Handled

(* Another frame is the last one. *)
LEMMA PacketsAge ==
    ASSUME Types, PacketsInv, NEW f \in Frames, Follows(frame, f)
    PROVE  /\ \A i \in Received : packets[i] \in Frames /\ UpTo(packets[i], f) /\ packets[i] # f
           /\ \A k \in DOMAIN handled : \A i \in DOMAIN handled[k].data :
                 UpTo(handled[k].data[i], f) /\ handled[k].data[i] # f
<1>1. \A g \in Frames : UpTo(g, frame) => UpTo(g, f) /\ g # f
  BY LaterFrame DEF Types, LineTypes
<1>2. \A i \in Received : packets[i] \in Frames
  BY DEF Types, ParserTypes
<1> QED
  BY <1>1, <1>2, HandledRange DEF PacketsInv

LEMMA ParsePackets ==
    ASSUME Types, PacketsInv, NEW f \in Frames, Follows(frame, f), frame' = f,
           NEW p1 \in Nat, NEW p2 \in Nat, EApduProtocolParse(f, p1, p2)
    PROVE  PacketsInv'
<1> DEFINE count == IF p2 = 0 /\ total = 0 THEN p1 ELSE total
           stored == IF p2 = 0 /\ total = 0 THEN [i \in {0} |-> f] ELSE With(f, p2)
           new == [req |-> f.req, data |-> [i \in 1..count |-> stored[i - 1]]]
<1>1. /\ \A i \in Received : packets[i] \in Frames /\ UpTo(packets[i], f) /\ packets[i] # f
      /\ \A k \in DOMAIN handled : \A i \in DOMAIN handled[k].data :
            UpTo(handled[k].data[i], f) /\ handled[k].data[i] # f
  BY PacketsAge
<1>2. UpTo(f, f)
  BY DEF UpTo, Frames
<1>3. CASE Freed /\ UNCHANGED handled
  <2>1. Received' = {} /\ total' = 0 /\ packets' = <<>> /\ handled' = handled
    BY <1>3 DEF Freed, Received
  <2>2. NothingTwice'
    BY <2>1 DEF PacketsInv, NothingTwice
  <2> QED
    BY <1>1, <2>1, <2>2 DEF PacketsInv
<1>4. CASE UNCHANGED <<total, packets, busy, handled>>
  <2>1. Received' = Received /\ NothingTwice'
    BY <1>4 DEF Received, PacketsInv, NothingTwice
  <2> QED
    BY <1>1, <1>4, <2>1 DEF PacketsInv
<1>5. CASE ~WrongHeader(p1, p2) /\ ~Duplicate(p2)
  <2>1. /\ DOMAIN stored \subseteq Received \cup {p2} /\ p2 \in DOMAIN stored
        /\ \A i \in DOMAIN stored : stored[i] = IF i = p2 THEN f ELSE packets[i]
    BY DEF With
  <2>2. \A i \in DOMAIN stored :
           (i = p2 /\ stored[i] = f) \/ (i # p2 /\ i \in Received /\ stored[i] = packets[i])
    BY <2>1, Zenon
  <2> HIDE DEF stored
  <2>3. \A i \in DOMAIN stored : UpTo(stored[i], f)
    BY <1>1, <1>2, <2>2, Zenon
  <2>4. \A i, j \in DOMAIN stored : stored[i] = stored[j] => i = j
    BY <1>1, <2>2, Zenon DEF PacketsInv
  <2>5. \A k \in DOMAIN handled : \A i \in DOMAIN handled[k].data :
           \A j \in DOMAIN stored : stored[j] # handled[k].data[i]
    BY <1>1, <2>2, Zenon DEF PacketsInv
  <2>6. CASE Misses(count, stored)
    <3>1. total' = count /\ packets' = stored /\ UNCHANGED <<busy, handled>>
      BY <1>5, <2>6 DEF EApduProtocolParse, stored
    <3>2. count # 0
      <4>1. PICK i \in 0..count - 1 : TRUE
        BY <2>6 DEF Misses
      <4>2. count \in Nat
        BY DEF Types, ParserTypes
      <4> QED
        BY <4>1, <4>2
    <3>3. packets' # <<>>
      <4>1. DOMAIN packets' # DOMAIN <<>>
        BY <2>1, <3>1
      <4> QED
        BY <4>1, Zenon
    <3>4. Received' = DOMAIN stored /\ NothingTwice'
      BY <3>1 DEF Received, PacketsInv, NothingTwice
    <3> HIDE DEF count
    <3>5. \A k \in DOMAIN handled' : \A i \in DOMAIN handled'[k].data :
             /\ UpTo(handled'[k].data[i], frame')
             /\ \A j \in Received' : packets'[j] # handled'[k].data[i]
      BY <1>1, <2>5, <3>1, <3>4
    <3>6. /\ \A i \in Received' : UpTo(packets'[i], frame')
          /\ \A i, j \in Received' : packets'[i] = packets'[j] => i = j
      BY <2>3, <2>4, <3>1, <3>4
    <3> QED
      BY <3>1, <3>2, <3>3, <3>4, <3>5, <3>6, Zenon DEF PacketsInv
  <2>7. CASE ~Misses(count, stored)
    <3>1. handled' = Append(handled, new) /\ Freed
      BY <1>5, <2>7 DEF EApduProtocolParse, AfterHandler, stored
    <3>2. /\ new.data = [i \in 1..count |-> stored[i - 1]]
          /\ \A i \in 1..count : i - 1 \in DOMAIN stored /\ i \in Int
      <4>1. count \in Nat
        BY DEF Types, ParserTypes
      <4> HIDE DEF count
      <4>2. \A i \in 1..count : i - 1 \in 0..count - 1
        BY <4>1
      <4>3. \A i \in 1..count : i - 1 \in DOMAIN stored
        BY <2>7, <4>2, Zenon DEF Misses
      <4> QED
        BY <4>1, <4>3
    <3> HIDE DEF count
    <3>3. \A i \in DOMAIN new.data : i \in 1..count /\ new.data[i] = stored[i - 1]
      BY <3>2
    <3>4. \A i \in DOMAIN new.data : UpTo(new.data[i], f)
      BY <2>3, <3>2, <3>3, Zenon
    <3>5. \A i, j \in DOMAIN new.data : new.data[i] = new.data[j] => i = j
      <4> TAKE i, j \in DOMAIN new.data
      <4> HAVE new.data[i] = new.data[j]
      <4>1. stored[i - 1] = stored[j - 1] /\ i - 1 \in DOMAIN stored /\ j - 1 \in DOMAIN stored
        BY <3>2, <3>3, Zenon
      <4>2. i - 1 = j - 1
        BY <2>4, <4>1, Zenon
      <4> QED
        BY <3>2, <3>3, <4>2
    <3>6. \A k \in DOMAIN handled : \A i \in DOMAIN handled[k].data :
             \A j \in DOMAIN new.data : new.data[j] # handled[k].data[i]
      BY <2>5, <3>2, <3>3, Zenon
    <3> HIDE DEF new
    <3>7. handled \in Seq(Handled) /\ Len(handled) \in Nat
      BY DEF Types, ParserTypes
    <3>8. \A k \in DOMAIN handled' :
             \/ k \in DOMAIN handled /\ handled'[k] = handled[k]
             \/ k = Len(handled) + 1 /\ k \notin DOMAIN handled /\ handled'[k] = new
      BY <3>1, <3>7
    <3>9. Received' = {} /\ total' = 0 /\ packets' = <<>>
      BY <3>1 DEF Freed, Received
    <3>10. NothingTwice'
      <4>1. ASSUME NEW k \in DOMAIN handled', NEW l \in DOMAIN handled',
                   NEW i \in DOMAIN handled'[k].data, NEW j \in DOMAIN handled'[l].data,
                   handled'[k].data[i] = handled'[l].data[j]
            PROVE  k = l /\ i = j
        <5>1. CASE k \in DOMAIN handled /\ l \in DOMAIN handled
          <6>1. handled'[k] = handled[k] /\ handled'[l] = handled[l]
            BY <3>8, <5>1, Zenon
          <6>2. i \in DOMAIN handled[k].data /\ j \in DOMAIN handled[l].data
                /\ handled[k].data[i] = handled[l].data[j]
            BY <4>1, <6>1
          <6> QED
            BY <5>1, <6>2 DEF PacketsInv, NothingTwice
        <5>2. CASE k \in DOMAIN handled /\ l \notin DOMAIN handled
          BY <3>6, <3>8, <4>1, <5>2, Zenon
        <5>3. CASE k \notin DOMAIN handled /\ l \in DOMAIN handled
          BY <3>6, <3>8, <4>1, <5>3, Zenon
        <5>4. CASE k \notin DOMAIN handled /\ l \notin DOMAIN handled
          BY <3>5, <3>8, <4>1, <5>4, Zenon
        <5> QED
          BY <5>1, <5>2, <5>3, <5>4
      <4> QED
        BY <4>1, Zenon DEF NothingTwice
    <3>11. \A k \in DOMAIN handled' : \A i \in DOMAIN handled'[k].data : UpTo(handled'[k].data[i], f)
      BY <1>1, <3>4, <3>8, Zenon
    <3> QED
      BY <3>9, <3>10, <3>11 DEF PacketsInv
  <2> QED
    BY <2>6, <2>7
<1> QED
  BY <1>3, <1>4, <1>5 DEF EApduProtocolParse

LEMMA TakePackets ==
    ASSUME Types, LineInv, OrderInv, PacketsInv, Take, ~ahead'
    PROVE  PacketsInv'
<1> DEFINE f == sent[1]
<1>1. WholeInv /\ QueueInv /\ RingInv
  BY DEF LineInv, Take
<1>2. f \in Frames /\ frame' = f /\ ProtocolReceivedData(f) /\ sent # <<>>
  BY <1>1, TakeFirst
<1>3. Follows(frame, f) /\ f \in Frames
  BY <1>2 DEF OrderInv
<1>4. requests[f.req].total \in Nat /\ f.index \in Nat
  <2>1. 1 \in DOMAIN sent /\ requests \in Seq(Requests)
    BY <1>2 DEF Types, LineTypes, HostTypes
  <2>2. f.req \in DOMAIN requests
    BY <1>1, <2>1 DEF WholeInv, Whole
  <2>3. requests[f.req] \in Requests
    BY <2>1, <2>2
  <2> QED
    BY <1>2, <2>3, Sizes DEF Requests, Frames
<1> HIDE DEF f
<1>5. CASE UNCHANGED <<busy, total, packets, handled>>
  <2>1. Received' = Received /\ NothingTwice' /\ packets' = packets /\ handled' = handled /\ total' = total
    BY <1>5 DEF Received, PacketsInv, NothingTwice
  <2> QED
    BY <1>2, <1>3, <2>1, PacketsAge DEF PacketsInv
<1>6. ASSUME NEW p1 \in Nat, NEW p2 \in Nat, EApduProtocolParse(f, p1, p2)
      PROVE  PacketsInv'
  BY <1>2, <1>3, <1>6, ParsePackets
<1>7. \/ UNCHANGED <<busy, total, packets, handled>>
      \/ EApduProtocolParse(f, requests[f.req].total, f.index)
      \/ \E p1 \in 0..MAX_PACKETS + 1, p2 \in 0..MAX_PACKETS : EApduProtocolParse(f, p1, p2)
  BY <1>2, Zenon DEF ProtocolReceivedData, parserVars
<1>8. 0..MAX_PACKETS + 1 \subseteq Nat /\ 0..MAX_PACKETS \subseteq Nat
  BY Sizes
<1> QED
  BY <1>4, <1>5, <1>6, <1>7, <1>8, Zenon

(* A request that met no other: its first frame finds the parser empty, its *)
(* packets so far are all there, and it was handled whole and once.         *)
Clean(r, asked, met) == asked[r].kind = "eapdu" /\ r \notin met

WholeData(h, asked) == h.data = [i \in 1..asked[h.req].total |-> [req |-> h.req, index |-> i - 1]]

LastOf(r, asked) == [req |-> r, index |-> asked[r].total - 1]

HandledInv ==
    \A k \in DOMAIN handled :
        /\ handled[k].req \in DOMAIN requests
        /\ Clean(handled[k].req, requests, spoilt) =>
              /\ WholeData(handled[k], requests)
              /\ UpTo(LastOf(handled[k].req, requests), frame)
              /\ \A l \in DOMAIN handled : handled[l].req = handled[k].req => l = k

StartInv == sent # <<>> /\ sent[1].index = 0 /\ Clean(sent[1].req, requests, spoilt) => packets = <<>>

(* A request too long is freed, one received to its end was handled, and    *)
(* of any other the packets up to the last frame are there.                 *)
SoFar(f, asked, count, stored) ==
    \/ asked[f.req].total > MAX_PACKETS /\ stored = <<>>
    \/ f.index = asked[f.req].total - 1 /\ stored = <<>>
    \/ /\ f.index < asked[f.req].total - 1 /\ asked[f.req].total <= MAX_PACKETS
       /\ count = asked[f.req].total
       /\ stored = [i \in 0..f.index |-> [req |-> f.req, index |-> i]]

SoFarInv == frame # NoFrame /\ Clean(frame.req, requests, spoilt) => SoFar(frame, requests, total, packets)

CleanInv == HandledInv /\ StartInv /\ SoFarInv

(* The steps of the host leave what the parser has as it was. *)
LEMMA HostClean ==
    ASSUME Types, LineInv, OrderInv, CleanInv, ~ahead', NEW f \in Frames, Transfer(f),
           Whole(f, requests'), requests' \in Seq(Requests), DOMAIN requests \subseteq DOMAIN requests',
           \A r \in DOMAIN requests : requests'[r] = requests[r],
           \A r \in DOMAIN requests : r \in spoilt' <=> r \in spoilt,
           sent = <<>> /\ f.index = 0 /\ f.req \notin spoilt' => packets = <<>>
    PROVE  CleanInv'
<1>1. WholeInv /\ QueueInv /\ RingInv
  BY DEF LineInv, Transfer
<1>2. /\ sent' = Append(sent, f) /\ Len(sent') = Len(sent) + 1 /\ sent'[Len(sent')] = f
      /\ \A i \in 1..Len(sent) : sent'[i] = sent[i]
  BY TransferLine
<1>3. UNCHANGED <<total, packets, handled, frame>>
  BY DEF Transfer, parserVars
<1>4. \A r \in DOMAIN requests : Clean(r, requests', spoilt') <=> Clean(r, requests, spoilt)
  BY DEF Clean
<1>5. HandledInv'
  <2>1. \A r \in DOMAIN requests : LastOf(r, requests') = LastOf(r, requests)
    BY DEF LastOf
  <2>2. \A k \in DOMAIN handled : handled[k].req \in DOMAIN requests
    BY DEF CleanInv, HandledInv
  <2>3. \A k \in DOMAIN handled : WholeData(handled[k], requests') <=> WholeData(handled[k], requests)
    BY <2>2 DEF WholeData
  <2>4. HandledInv
    BY DEF CleanInv
  <2> QED
    BY <1>3, <1>4, <2>1, <2>2, <2>3, <2>4 DEF HandledInv
<1>6. StartInv'
  <2>1. CASE sent = <<>>
    <3>1. sent'[1] = f
      BY <1>2, <2>1
    <3> QED
      BY <1>3, <2>1, <3>1 DEF StartInv, Clean
  <2>2. CASE sent # <<>>
    <3>1. 1 \in DOMAIN sent /\ sent'[1] = sent[1]
      BY <1>2, <2>2 DEF Types, LineTypes
    <3>2. sent[1].req \in DOMAIN requests
      BY <1>1, <3>1 DEF WholeInv, Whole
    <3> QED
      BY <1>3, <1>4, <2>2, <3>1, <3>2 DEF StartInv, CleanInv
  <2> QED
    BY <2>1, <2>2
<1>7. SoFarInv'
  <2>1. frame # NoFrame => frame.req \in DOMAIN requests
    BY <1>1 DEF WholeInv, Whole
  <2>2. frame # NoFrame =>
           (SoFar(frame, requests', total, packets) <=> SoFar(frame, requests, total, packets))
    BY <2>1 DEF SoFar
  <2> QED
    BY <1>3, <1>4, <2>1, <2>2 DEF SoFarInv, CleanInv
<1> QED
  BY <1>5, <1>6, <1>7 DEF CleanInv

LEMMA BeginClean ==
    ASSUME Types, LineInv, OrderInv, CleanInv, NEW kind \in Kinds, NEW n \in 1..MaxTotal,
           Begin(kind, n), ~ahead'
    PROVE  CleanInv'
<1> DEFINE f == [req |-> Len(requests) + 1, index |-> 0]
<1>1. /\ f \in Frames /\ Transfer(f) /\ Whole(f, requests')
      /\ requests' \in Seq(Requests) /\ DOMAIN requests \subseteq DOMAIN requests'
      /\ \A r \in DOMAIN requests : requests'[r] = requests[r]
      /\ Len(requests') = Len(requests) + 1
  BY BeginFrame, Zenon
<1>2. f.req = Len(requests') /\ f.req \notin DOMAIN requests
  BY <1>1 DEF Types, HostTypes
<1>3. /\ \A r \in DOMAIN requests : r \in spoilt' <=> r \in spoilt
      /\ sent = <<>> /\ f.index = 0 /\ f.req \notin spoilt' => packets = <<>>
  BY <1>2 DEF Begin
<1> HIDE DEF f
<1> QED
  BY <1>1, <1>3, HostClean, Zenon

LEMMA GoOnClean ==
    ASSUME Types, LineInv, OrderInv, CleanInv, GoOn, ~ahead'
    PROVE  CleanInv'
<1> DEFINE f == [req |-> Len(requests), index |-> next]
<1>1. f \in Frames /\ Transfer(f) /\ Whole(f, requests') /\ requests' = requests
  BY GoOnFrame, Zenon
<1>2. requests # <<>> /\ spoilt' = spoilt /\ requests \in Seq(Requests) /\ next \in Int
  BY DEF GoOn, Types, HostTypes
<1>3. ~(sent = <<>> /\ f.index = 0)
  <2> SUFFICES ASSUME sent = <<>>, next = 0 PROVE FALSE
    OBVIOUS
  <2>1. frame.index = next - 1
    BY <1>2 DEF OrderInv, Newest
  <2>2. frame.index \in Nat
    BY DEF Types, LineTypes, Taken, Frames, NoFrame
  <2> QED
    BY <2>1, <2>2
<1>4. DOMAIN requests \subseteq DOMAIN requests' /\ \A r \in DOMAIN requests : requests'[r] = requests[r]
  BY <1>1
<1>5. requests' \in Seq(Requests) /\ \A r \in DOMAIN requests : r \in spoilt' <=> r \in spoilt
  BY <1>1, <1>2
<1> HIDE DEF f
<1> QED
  BY <1>1, <1>3, <1>4, <1>5, HostClean, Zenon

(* What EApduRequestHandler is given is of the request of the last frame.   *)
LEMMA ParseHandled ==
    ASSUME Types, NEW f, NEW p1, NEW p2, EApduProtocolParse(f, p1, p2)
    PROVE  handled' = handled \/ \E data : handled' = Append(handled, [req |-> f.req, data |-> data])
<1>1. CASE UNCHANGED handled
  BY <1>1
<1>2. CASE ~WrongHeader(p1, p2) /\ ~Duplicate(p2)
  BY <1>2, Zenon DEF EApduProtocolParse
<1> QED
  BY <1>1, <1>2 DEF EApduProtocolParse

(* The next frame of a clean request: its packets are those before it.      *)
LEMMA ParseClean ==
    ASSUME Types, PacketsInv, NEW f \in Frames, f.req \in DOMAIN requests,
           f.index < requests[f.req].total, Follows(frame, f),
           EApduProtocolParse(f, requests[f.req].total, f.index),
           f.index = 0 => packets = <<>>,
           frame # NoFrame /\ frame.req = f.req => SoFar(frame, requests, total, packets)
    PROVE  /\ SoFar(f, requests, total', packets')
           /\ \/ handled' = handled
              \/ /\ f.index = requests[f.req].total - 1
                 /\ handled' = Append(handled, [req |-> f.req,
                       data |-> [i \in 1..requests[f.req].total |-> [req |-> f.req, index |-> i - 1]]])
<1> DEFINE T == requests[f.req].total
           r == f.req
           x == f.index
           count == IF x = 0 /\ total = 0 THEN T ELSE total
           stored == IF x = 0 /\ total = 0 THEN [i \in {0} |-> f] ELSE With(f, x)
           upTo(n) == [i \in 0..n |-> [req |-> r, index |-> i]]
<1>1. /\ T \in Nat /\ T > 0 /\ x \in Nat /\ x < T /\ r \in Nat /\ r > 0 /\ f = [req |-> r, index |-> x]
      /\ MAX_PACKETS \in Nat /\ frame.req \in Nat /\ frame.index \in Nat
  <2>1. requests \in Seq(Requests) /\ frame \in Taken
    BY DEF Types, HostTypes, LineTypes
  <2>2. requests[f.req] \in Requests
    BY <2>1
  <2>3. T \in Nat /\ T > 0
    BY <2>2, Sizes DEF Requests
  <2>4. x \in Nat /\ r \in Nat /\ r > 0 /\ f = [req |-> r, index |-> x]
    BY DEF Frames
  <2>5. frame.req \in Nat /\ frame.index \in Nat
    BY <2>1 DEF Taken, Frames, NoFrame
  <2> QED
    BY <2>3, <2>4, <2>5, Sizes
<1>2. CASE T > MAX_PACKETS
  <2>1. Freed /\ UNCHANGED handled
    BY <1>2 DEF EApduProtocolParse, WrongHeader
  <2> QED
    BY <1>2, <2>1 DEF Freed, SoFar
<1>3. CASE T <= MAX_PACKETS
  <2>1. ~WrongHeader(T, x)
    BY <1>1, <1>3 DEF WrongHeader
  <2>2. ~Duplicate(x) /\ count = T /\ stored = upTo(x)
    <3>1. CASE x = 0
      <4>1. packets = <<>> /\ total = 0 /\ Received = {}
        BY <3>1 DEF PacketsInv, Received
      <4>2. stored = [i \in {0} |-> f] /\ 0..0 = {0}
        BY <3>1, <4>1
      <4>3. \A i \in 0..0 : f = [req |-> r, index |-> i]
        BY <1>1, <3>1
      <4> HIDE DEF stored
      <4>4. stored = upTo(x)
        BY <3>1, <4>2, <4>3
      <4> QED
        BY <3>1, <4>1, <4>4 DEF Duplicate
    <3>2. CASE x # 0
      <4>1. frame.req = r /\ x = frame.index + 1 /\ frame # NoFrame
        BY <1>1, <3>2 DEF Follows, NoFrame
      <4>2. SoFar(frame, requests, total, packets)
        BY <4>1
      <4>3. total = T /\ packets = upTo(frame.index)
        BY <1>1, <1>3, <4>1, <4>2 DEF SoFar
      <4>4. Received = 0..frame.index /\ x \notin Received /\ Received \cup {x} = 0..x
        BY <1>1, <4>1, <4>3 DEF Received
      <4>5. \A i \in 0..x : (IF i = x THEN f ELSE packets[i]) = [req |-> r, index |-> i]
        <5> TAKE i \in 0..x
        <5>1. CASE i = x
          BY <1>1, <5>1
        <5>2. CASE i # x
          <6>1. i \in 0..frame.index
            BY <1>1, <4>1, <5>2
          <6> QED
            BY <4>3, <5>2, <6>1
        <5> QED
          BY <5>1, <5>2
      <4>6. With(f, x) = [i \in 0..x |-> IF i = x THEN f ELSE packets[i]]
        BY <4>4 DEF With
      <4>7. With(f, x) = upTo(x)
        BY <4>5, <4>6
      <4> HIDE DEF T
      <4> QED
        BY <3>2, <4>3, <4>4, <4>7 DEF Duplicate
    <3> QED
      BY <3>1, <3>2
  <2>3. IF Misses(count, stored)
        THEN total' = count /\ packets' = stored /\ UNCHANGED <<busy, handled>>
        ELSE /\ handled' = Append(handled, [req |-> f.req, data |-> [i \in 1..count |-> stored[i - 1]]])
             /\ Freed
    BY <2>1, <2>2 DEF EApduProtocolParse, AfterHandler
  <2> HIDE DEF count, stored
  <2>4. Misses(count, stored) <=> x < T - 1
    <3>1. DOMAIN stored = 0..x
      BY <2>2
    <3>2. Misses(count, stored) <=> \E i \in 0..T - 1 : i \notin 0..x
      BY <2>2, <3>1 DEF Misses
    <3> HIDE DEF T, x
    <3>3. CASE x < T - 1
      <4>1. T - 1 \in 0..T - 1 /\ T - 1 \notin 0..x
        BY <1>1, <3>3
      <4> QED
        BY <3>2, <3>3, <4>1
    <3>4. CASE ~(x < T - 1)
      <4>1. \A i \in 0..T - 1 : i \in 0..x
        BY <1>1, <3>4
      <4> QED
        BY <3>2, <3>4, <4>1
    <3> QED
      BY <3>3, <3>4
  <2>5. CASE x < T - 1
    BY <1>3, <2>2, <2>3, <2>4, <2>5 DEF SoFar
  <2>6. CASE ~(x < T - 1)
    <3>1. x = T - 1
      BY <1>1, <2>6
    <3>2. \A i \in 1..T : stored[i - 1] = [req |-> r, index |-> i - 1]
      BY <1>1, <2>2, <3>1
    <3>3. [i \in 1..count |-> stored[i - 1]] = [i \in 1..T |-> [req |-> r, index |-> i - 1]]
      BY <2>2, <3>2
    <3>4. packets' = <<>>
      BY <2>3, <2>4, <2>6 DEF Freed
    <3> QED
      BY <2>3, <2>4, <2>6, <3>1, <3>3, <3>4 DEF SoFar
  <2> QED
    BY <2>5, <2>6
<1> QED
  BY <1>1, <1>2, <1>3

LEMMA TakeClean ==
    ASSUME Types, LineInv, OrderInv, PacketsInv, CleanInv, Take, ~ahead'
    PROVE  CleanInv'
<1> DEFINE f == sent[1]
           r == f.req
<1>1. WholeInv /\ QueueInv /\ RingInv
  BY DEF LineInv, Take
<1>2. /\ f \in Frames /\ frame' = f /\ ProtocolReceivedData(f) /\ sent # <<>> /\ sent' = Tail(sent)
      /\ Len(sent) \in Nat /\ Len(sent') = Len(sent) - 1 /\ requests' = requests
      /\ \A i \in 1..Len(sent) - 1 : sent'[i] = sent[i + 1]
  BY <1>1, TakeFirst DEF hostVars
<1>3. Follows(frame, f) /\ Whole(f, requests) /\ f # NoFrame
  <2>1. 1 \in DOMAIN sent
    BY <1>2 DEF Types, LineTypes
  <2> QED
    BY <1>1, <1>2, <2>1 DEF OrderInv, WholeInv, Frames, NoFrame
<1>4. spoilt \subseteq spoilt' /\ OrderInv'
  BY TakeOrder
<1>5. requests \in Seq(Requests) /\ frame \in Taken /\ handled \in Seq(Handled)
  BY DEF Types, HostTypes, LineTypes, ParserTypes
<1>6. \A q : Clean(q, requests', spoilt') => Clean(q, requests, spoilt)
  BY <1>2, <1>4 DEF Clean
<1>7. StartInv'
  <2> SUFFICES ASSUME sent' # <<>>, sent'[1].index = 0 PROVE sent'[1].req \in spoilt
    BY <1>4 DEF StartInv, Clean
  <2>1. sent' \in Seq(Frames)
    BY <1>2, TailFacts DEF Types, LineTypes
  <2>2. 1 \in 1..Len(sent) - 1 /\ 2 \in DOMAIN sent /\ 1 + 1 = 2 /\ 2 > 1
    BY <1>2, <2>1 DEF Types, LineTypes
  <2>3. sent'[1] = sent[2]
    BY <1>2, <2>2
  <2> QED
    BY <2>2, <2>3 DEF OrderInv
(* The frame is of no clean request that was handled. *)
<1>8. ASSUME NEW k \in DOMAIN handled, Clean(handled[k].req, requests, spoilt)
      PROVE  handled[k].req # r /\ UpTo(LastOf(handled[k].req, requests), f)
  <2> DEFINE q == handled[k].req
             g == LastOf(q, requests)
  <2>1. q \in DOMAIN requests /\ UpTo(g, frame)
    BY <1>8 DEF CleanInv, HandledInv
  <2>2. requests[q] \in Requests /\ q \in 1..MaxRequests
    BY <1>5, <2>1, HandledRange
  <2>3. g \in Frames /\ g.index = requests[q].total - 1 /\ g.req = q
    BY <2>2, Sizes DEF LastOf, Frames, Requests
  <2>4. UpTo(g, f) /\ ~UpTo(f, frame)
    <3>1. UpTo(g, f)
      BY <1>2, <1>3, <1>5, <2>1, <2>3, LaterFrame
    <3>2. ~UpTo(f, frame)
      BY <1>2, <1>3, <1>5, LaterFrame
    <3> QED
      BY <3>1, <3>2
  <2>5. q # r
    <3> SUFFICES ASSUME q = r PROVE FALSE
      OBVIOUS
    <3>1. f.index < requests[q].total /\ f.index \in Nat /\ requests[q].total \in Nat
      BY <1>2, <1>3, <2>2, Sizes DEF Whole, Frames, Requests
    <3>2. f.index <= g.index /\ f.req = g.req
      BY <2>2, <2>3, <3>1
    <3> HIDE DEF g, q
    <3>3. UpTo(f, frame)
      BY <1>2, <1>5, <2>1, <2>3, <3>2 DEF UpTo, Frames, Taken, NoFrame
    <3> QED
      BY <2>4, <3>3
  <2> QED
    BY <2>4, <2>5
<1>9. ASSUME Clean(r, requests, spoilt')
      PROVE  /\ SoFar(f, requests, total', packets')
             /\ \/ handled' = handled
                \/ /\ f.index = requests[r].total - 1
                   /\ handled' = Append(handled, [req |-> r,
                         data |-> [i \in 1..requests[r].total |-> [req |-> r, index |-> i - 1]]])
  <2>1. Clean(r, requests, spoilt)
    BY <1>2, <1>6, <1>9
  <2>2. EApduProtocolParse(f, requests[r].total, f.index)
    BY <1>2, <1>9 DEF ProtocolReceivedData, Clean
  <2>3. f.index = 0 => packets = <<>>
    BY <1>2, <2>1 DEF CleanInv, StartInv
  <2>4. frame # NoFrame /\ frame.req = r => SoFar(frame, requests, total, packets)
    BY <2>1 DEF CleanInv, SoFarInv
  <2> HIDE DEF f
  <2> QED
    BY <1>2, <1>3, <2>2, <2>3, <2>4, ParseClean DEF Whole
<1>10. handled' = handled \/ \E data : handled' = Append(handled, [req |-> r, data |-> data])
  <2> HIDE DEF f
  <2> QED
    BY <1>2, ParseHandled, Zenon DEF ProtocolReceivedData, parserVars
<1>11. SoFarInv'
  BY <1>2, <1>9 DEF SoFarInv
<1>12. HandledInv'
  <2>1. ASSUME NEW k \in DOMAIN handled
        PROVE  /\ handled[k].req \in DOMAIN requests
               /\ Clean(handled[k].req, requests, spoilt') =>
                     /\ WholeData(handled[k], requests)
                     /\ handled[k].req # r
                     /\ UpTo(LastOf(handled[k].req, requests), f)
                     /\ \A l \in DOMAIN handled : handled[l].req = handled[k].req => l = k
    <3>1. handled[k].req \in DOMAIN requests
      BY DEF CleanInv, HandledInv
    <3>2. ASSUME Clean(handled[k].req, requests, spoilt')
          PROVE  /\ WholeData(handled[k], requests)
                 /\ handled[k].req # r
                 /\ UpTo(LastOf(handled[k].req, requests), f)
                 /\ \A l \in DOMAIN handled : handled[l].req = handled[k].req => l = k
      <4>1. Clean(handled[k].req, requests, spoilt)
        BY <1>2, <1>6, <3>2
      <4> HIDE DEF f
      <4> QED
        BY <1>8, <4>1 DEF CleanInv, HandledInv
    <3> QED
      BY <3>1, <3>2
  <2>2. CASE handled' = handled
    <3> HIDE DEF f
    <3> QED
      BY <1>2, <2>1, <2>2, Zenon DEF HandledInv
  <2>3. CASE handled' # handled
    <3>1. PICK data : handled' = Append(handled, [req |-> r, data |-> data])
      BY <1>10, <2>3
    <3> DEFINE n == Len(handled)
               new == [req |-> r, data |-> data]
    <3>2. /\ n \in Nat /\ DOMAIN handled' = 1..n + 1 /\ DOMAIN handled = 1..n
          /\ handled'[n + 1].req = r /\ handled'[n + 1] = new
          /\ \A l \in 1..n : handled'[l] = handled[l]
      BY <1>5, <3>1
    <3>3. ASSUME NEW k \in 1..n
          PROVE  /\ handled'[k].req \in DOMAIN requests
                 /\ Clean(handled'[k].req, requests, spoilt') =>
                       /\ WholeData(handled'[k], requests)
                       /\ UpTo(LastOf(handled'[k].req, requests), f)
                       /\ \A l \in 1..n + 1 : handled'[l].req = handled'[k].req => l = k
      <4>1. k \in DOMAIN handled /\ handled'[k] = handled[k]
        BY <3>2
      <4>2. \A l \in 1..n + 1 : l \in 1..n \/ l = n + 1
        BY <3>2
      <4> HIDE DEF n, f, new
      <4> QED
        BY <2>1, <3>2, <4>1, <4>2, Zenon
    <3>4. r \in DOMAIN requests
      BY <1>3 DEF Whole
    <3>5. ASSUME Clean(r, requests, spoilt')
          PROVE  /\ WholeData(handled'[n + 1], requests)
                 /\ UpTo(LastOf(r, requests), f)
                 /\ \A l \in 1..n + 1 : handled'[l].req = r => l = n + 1
      <4>1. /\ f.index = requests[r].total - 1
            /\ handled' = Append(handled, [req |-> r,
                   data |-> [i \in 1..requests[r].total |-> [req |-> r, index |-> i - 1]]])
        BY <1>9, <2>3, <3>5
      <4>2. handled'[n + 1] = [req |-> r,
                   data |-> [i \in 1..requests[r].total |-> [req |-> r, index |-> i - 1]]]
        BY <1>5, <4>1
      <4>3. WholeData(handled'[n + 1], requests)
        BY <4>2 DEF WholeData
      <4>4. UpTo(LastOf(r, requests), f)
        BY <1>2, <4>1 DEF UpTo, LastOf, Frames
      <4>5. \A l \in 1..n : handled'[l].req # r
        <5> TAKE l \in 1..n
        <5>1. l \in DOMAIN handled /\ handled'[l] = handled[l]
          BY <3>2
        <5> HIDE DEF f, n
        <5> QED
          BY <2>1, <3>5, <5>1, Zenon
      <4>6. \A l \in 1..n + 1 : l \in 1..n \/ l = n + 1
        BY <3>2
      <4> HIDE DEF n, f
      <4> QED
        BY <4>3, <4>4, <4>5, <4>6, Zenon
    <3>6. \A k \in 1..n + 1 : k \in 1..n \/ k = n + 1
      BY <3>2
    <3> HIDE DEF f, n, new
    <3> QED
      BY <1>2, <3>2, <3>3, <3>4, <3>5, <3>6, Zenon DEF HandledInv
  <2> QED
    BY <2>2, <2>3
<1> QED
  BY <1>7, <1>11, <1>12 DEF CleanInv

-----------------------------------------------------------------------------
(* The theorems.                                                            *)

RequestInv == ~ahead => OrderInv /\ PacketsInv /\ CleanInv

LEMMA InitRequest == Init => RequestInv
<1> SUFFICES ASSUME Init PROVE OrderInv /\ PacketsInv /\ CleanInv
  BY DEF RequestInv
<1>1. OrderInv
  BY DEF Init, OrderInv, Newest, NoFrame
<1>2. PacketsInv
  BY DEF Init, PacketsInv, NothingTwice, Received
<1>3. CleanInv
  BY DEF Init, CleanInv, HandledInv, StartInv, SoFarInv
<1> QED
  BY <1>1, <1>2, <1>3

LEMMA NextRequest ==
    ASSUME Types, LineInv, RequestInv, [Next]_vars
    PROVE  RequestInv'
<1> SUFFICES ASSUME ~ahead' PROVE OrderInv' /\ PacketsInv' /\ CleanInv'
  BY DEF RequestInv
<1>1. 1..MaxChunks \subseteq 1..MaxTotal
  BY Sizes
<1>2. ASSUME NEW f \in Frames, Transfer(f), PacketsInv
      PROVE  PacketsInv'
  BY <1>2 DEF Transfer, parserVars, PacketsInv, NothingTwice, Received
<1>3. ASSUME NEW kind \in Kinds, NEW n \in 1..MaxTotal, Begin(kind, n)
      PROVE  OrderInv' /\ PacketsInv' /\ CleanInv'
  <2>1. OrderInv /\ PacketsInv /\ CleanInv
    BY <1>3 DEF RequestInv, Begin, Transfer
  <2> QED
    BY <1>2, <1>3, <2>1, BeginFrame, BeginOrder, BeginClean
<1>4. CASE GoOn
  <2>1. OrderInv /\ PacketsInv /\ CleanInv
    BY <1>4 DEF RequestInv, GoOn, Transfer
  <2> QED
    BY <1>2, <1>4, <2>1, GoOnFrame, GoOnOrder, GoOnClean
<1>5. CASE Take
  <2>1. OrderInv /\ PacketsInv /\ CleanInv
    BY <1>5 DEF RequestInv, Take
  <2> QED
    BY <1>5, <2>1, TakeOrder, TakePackets, TakeClean
<1>6. CASE PutByte \/ DropOldest \/ Announce \/ Return \/ FileOver \/ UNCHANGED vars
  <2>1. UNCHANGED <<requests, next, total, packets, sent, frame, handled, spoilt, ahead>>
    BY <1>6 DEF PutByte, DropOldest, Announce, Return, FileOver, vars, hostVars, parserVars, history
  <2>2. OrderInv /\ PacketsInv /\ CleanInv
    BY <2>1 DEF RequestInv
  <2>3. OrderInv'
    BY <2>1, <2>2 DEF OrderInv, Newest
  <2>4. PacketsInv'
    BY <2>1, <2>2 DEF PacketsInv, NothingTwice, Received
  <2>5. CleanInv'
    BY <2>1, <2>2 DEF CleanInv, HandledInv, StartInv, SoFarInv
  <2> QED
    BY <2>3, <2>4, <2>5
<1> QED
  BY <1>1, <1>3, <1>4, <1>5, <1>6, Zenon DEF Next, Kinds, Finished

LEMMA AlwaysRequest == Spec => []RequestInv
<1>1. Init => RequestInv
  BY InitRequest
<1>2. (Types /\ LineInv) /\ RequestInv /\ [Next]_vars => RequestInv'
  BY NextRequest
<1> QED
  BY <1>1, <1>2, AlwaysLine, PTL DEF Spec

(* Every packet of EApduProtocolParse is handed to a handler at most once:  *)
(* free_parser follows every handler.                                       *)
THEOREM PacketsAreUsedOnce == Spec => []PacketsUsedOnce
<1>1. RequestInv => PacketsUsedOnce
  BY DEF RequestInv, PacketsInv, PacketsUsedOnce
<1> QED
  BY <1>1, AlwaysRequest, PTL

(* A request that found the parser of EApduProtocolParse empty and met no   *)
(* other is handled once, with its own packets and all of them.             *)
THEOREM CleanRequestsStayWhole == Spec => []CleanRequestsWhole
<1>1. RequestInv => CleanRequestsWhole
  BY DEF RequestInv, CleanInv, HandledInv, Clean, WholeData, CleanRequestsWhole
<1> QED
  BY <1>1, AlwaysRequest, PTL
=============================================================================
