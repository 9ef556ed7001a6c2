----------------------------- MODULE UsbReceive -----------------------------
(***************************************************************************)
(* How a request of the USB host reaches its handler.  The USB task puts   *)
(* the bytes of a transfer into a ring and their number into a queue; the  *)
(* data parser task takes both out again (data_parser_task.c), chooses a   *)
(* parser by the first byte (protocol_parse.c) and joins the packets of a  *)
(* request (eapdu_protocol_parser.c).                                      *)
(*                                                                         *)
(* The parser's task has the higher priority.  The USB task runs while it  *)
(* waits for a message or sleeps in a handler, whose sleep may end between *)
(* any two memory accesses of the USB task.  The host is sequential; it    *)
(* may give a request up at any time and begin another.                    *)
(***************************************************************************)
EXTENDS Integers, Sequences

CONSTANTS
    MAX_PACKETS,   \* packets of a request (200)
    FrameLen,      \* bytes of a full frame (64)
    QueueLen,      \* messages g_springQueue holds (32)
    PARSER_CACHE_LEN, \* cells of the ring (2048), one of which stays free
    Window,        \* frames the host sends ahead of the parser
    MaxTotal,      \* bound: packets the host puts into a request
    MaxChunks,     \* bound: chunks of a frame of the internal protocol
    MaxRequests    \* bound: requests

ASSUME SizeAssumption ==
    /\ {MAX_PACKETS, FrameLen, QueueLen, Window, MaxTotal, MaxChunks, MaxRequests} \subseteq Nat \ {0}
    /\ PARSER_CACHE_LEN \in Nat /\ PARSER_CACHE_LEN > 1 /\ MaxChunks <= MaxTotal

(* The ring has room for every frame but one of a full queue: 31 frames of  *)
(* 64 bytes, with the cell that stays free, fit 2048.                       *)
ASSUME RoomAssumption == (QueueLen - 1) * FrameLen < PARSER_CACHE_LEN

VARIABLES
    requests, \* what the host has asked: its kind and its number of frames
    next,     \* the frame of the last request the host sends next
    usb,      \* the transfer usbd_cdc_DataOut is storing
    ring,     \* g_dataParserCache
    head,     \* g_cBufHandle->head, moved by the USB task
    tail,     \* g_cBufHandle->tail, moved by both
    saved,    \* the tail circular_buf_put has read and not yet written
    queue,    \* g_springQueue: the lengths
    busy,     \* the parser's task sleeps in a handler
    receiving,\* g_isReceivingFile
    total,    \* g_totalPackets
    packets,  \* g_receivedPackets and g_protocolRcvBuffer
    sent,     \* history: the frames sent and not yet taken
    frame,    \* history: the last frame taken
    torn,     \* history: a chunk was taken that is no frame
    handled,  \* history: what EApduRequestHandler was given
    spoilt,   \* history: the requests that met the rest of another one
    ahead     \* history: the host was as many frames ahead as the queue holds

hostVars == <<requests, next>>
ringVars == <<usb, ring, head, tail, saved, queue>>
parserVars == <<busy, receiving, total, packets>>
history == <<sent, frame, torn, handled, spoilt, ahead>>
vars == <<hostVars, ringVars, parserVars, history>>

Kinds == {"eapdu", "internal"}
Frames == [req : 1..MaxRequests, index : 0..MaxTotal - 1]
NoFrame == [req |-> 0, index |-> 0]
Idle == [frame |-> NoFrame, done |-> 0]
NoTail == -1
Cells == 0..PARSER_CACHE_LEN - 1

Init ==
    /\ requests = <<>> /\ next = 0
    /\ usb = Idle
    /\ ring = [c \in Cells |-> <<NoFrame, 0>>] /\ head = 0 /\ tail = 0 /\ saved = NoTail
    /\ queue = <<>>
    /\ busy = FALSE /\ receiving = FALSE /\ total = 0 /\ packets = <<>>
    /\ sent = <<>> /\ frame = NoFrame /\ torn = FALSE /\ handled = <<>> /\ spoilt = {}
    /\ ahead = FALSE

(* Only the last frame of a request is shorter than a transfer. *)
LengthOf(f) == IF f.index = requests[f.req].total - 1 THEN 1 ELSE FrameLen

-----------------------------------------------------------------------------
(* The host.                                                                *)

(* A transfer is complete, and usbd_cdc_DataOut begins to store it.         *)
Transfer(f) ==
    /\ usb = Idle /\ Len(sent) < Window
    /\ usb' = [frame |-> f, done |-> 0]
    /\ next' = f.index + 1
    /\ sent' = Append(sent, f)
    /\ ahead' = (ahead \/ Len(sent') >= QueueLen)
    /\ UNCHANGED <<ring, head, tail, saved, queue, parserVars, frame, torn, handled>>

(* The first frame of a request, whatever has become of the one before.     *)
Begin(kind, n) ==
    /\ Len(requests) < MaxRequests
    /\ requests' = Append(requests, [kind |-> kind, total |-> n])
    /\ Transfer([req |-> Len(requests'), index |-> 0])
    /\ spoilt' = IF sent = <<>> /\ packets = <<>> THEN spoilt
                 ELSE spoilt \cup {Len(requests')}

GoOn ==
    /\ requests # <<>> /\ next < requests[Len(requests)].total
    /\ Transfer([req |-> Len(requests), index |-> next])
    /\ UNCHANGED <<requests, spoilt>>

-----------------------------------------------------------------------------
(* The USB task.                                                            *)

Advance(i) == (i + 1) % PARSER_CACHE_LEN

(* circular_buf_full *)
Full == Advance(head) = tail

(* The parser's task is not ready to run. *)
ParserWaits == busy \/ queue = <<>>

Storing == usb # Idle /\ ParserWaits /\ ~torn

(* circular_buf_put *)
PutByte ==
    /\ Storing /\ usb.done < LengthOf(usb.frame) /\ saved = NoTail
    /\ ring' = [ring EXCEPT ![head] = <<usb.frame, usb.done>>]
    /\ IF Full
       THEN saved' = tail /\ UNCHANGED <<head, usb>>
       ELSE head' = Advance(head) /\ usb' = [usb EXCEPT !.done = @ + 1] /\ UNCHANGED saved
    /\ UNCHANGED <<hostVars, tail, queue, parserVars, history>>

(* The rest of it for a full ring: the oldest byte is dropped.  The tail    *)
(* was read before, and the parser may have moved it since.                 *)
DropOldest ==
    /\ Storing /\ saved # NoTail
    /\ tail' = Advance(saved) /\ saved' = NoTail
    /\ head' = Advance(head) /\ usb' = [usb EXCEPT !.done = @ + 1]
    /\ UNCHANGED <<hostVars, ring, queue, parserVars, history>>

(* Mutant: the bytes are announced before they are stored. *)
AnnouncedEarly == usb.done + 1 >= LengthOf(usb.frame)

Announced == usb.done = LengthOf(usb.frame)

(* PubValueMsg: a message that finds the queue full is lost, its bytes stay. *)
Announce ==
    /\ Storing /\ Announced /\ saved = NoTail
    /\ queue' = IF Len(queue) < QueueLen THEN Append(queue, LengthOf(usb.frame)) ELSE queue
    /\ usb' = Idle
    /\ UNCHANGED <<hostVars, ring, head, tail, saved, parserVars, history>>

-----------------------------------------------------------------------------
(* The data parser task.                                                    *)

(* circular_buf_size *)
Stored == (head - tail) % PARSER_CACHE_LEN

(* circular_buf_get, n times.  From an empty ring nothing is read, and the  *)
(* buffer keeps what it had.                                                *)
Got(n) == [k \in 1..(IF n <= Stored THEN n ELSE Stored) |->
              ring[(tail + k - 1) % PARSER_CACHE_LEN]]

(* Mutant: the bytes are looked at and left in the ring. *)
TailAfterPeek(n) == tail

TailAfter(n) == (tail + n) % PARSER_CACHE_LEN

(* The chunk is a frame of the host, whole.                                 *)
IsFrame(cells, n) ==
    /\ Len(cells) = n
    /\ cells[1][1] # NoFrame /\ n = LengthOf(cells[1][1])
    /\ \A k \in 1..n : cells[k] = <<cells[1][1], k - 1>>

(* free_parser *)
Freed == total' = 0 /\ packets' = <<>>

Received == DOMAIN packets

(* Mutant: the packets stay after they have been handled. *)
KeptPackets(count, stored) == total' = count /\ packets' = stored

(* EApduRequestHandler, and free_parser after it. *)
AfterHandler(count, stored) == Freed

(* CheckFrameValidity: a wrong header frees what was received. *)
WrongHeader(p1, p2) == p1 > MAX_PACKETS \/ p2 >= p1

Duplicate(p2) == p2 \in Received

(* Mutant: the packet runs into the row of the packet before it. *)
WithSpill(f, p2) == [i \in Received \cup {p2} |-> IF i \in {p2, p2 - 1} THEN f ELSE packets[i]]

(* The packets after one was stored.  packets holds those of g_receivedPackets. *)
With(f, p2) == [i \in Received \cup {p2} |-> IF i = p2 THEN f ELSE packets[i]]

(* Mutant: the loop goes one beyond the last packet. *)
MissesOneMore(count, stored) == \E i \in 0..count : i \notin DOMAIN stored

Misses(count, stored) == \E i \in 0..count - 1 : i \notin DOMAIN stored

(* EApduProtocolParse for the frame f with the header p1, p2.  The count is *)
(* taken from packet 0 only: before it no packet is missing.                *)
EApduProtocolParse(f, p1, p2) ==
    LET count == IF p2 = 0 /\ total = 0 THEN p1 ELSE total
        stored == IF p2 = 0 /\ total = 0 THEN [i \in {0} |-> f] ELSE With(f, p2)
    IN  \/ WrongHeader(p1, p2) /\ Freed /\ busy' = TRUE /\ UNCHANGED handled
        \/ /\ ~WrongHeader(p1, p2) /\ Duplicate(p2)
           /\ UNCHANGED <<total, packets, busy, handled>>
        \/ /\ ~WrongHeader(p1, p2) /\ ~Duplicate(p2)
           /\ IF Misses(count, stored)
              THEN total' = count /\ packets' = stored /\ UNCHANGED <<busy, handled>>
              ELSE /\ handled' = Append(handled,
                        [req |-> f.req, data |-> [i \in 1..count |-> stored[i - 1]]])
                   /\ AfterHandler(count, stored) /\ busy' = TRUE

(* ProtocolReceivedData.  A frame of the internal protocol begins with its  *)
(* own header, but any byte may begin its next chunk: a 0 is the header of  *)
(* the other protocol, and the two counts are then whatever follows it.     *)
(* While a file is received everything goes to the internal parser.         *)
ProtocolReceivedData(f) ==
    IF requests[f.req].kind = "eapdu"
    THEN IF receiving
         THEN /\ spoilt' = spoilt \cup {f.req}
              /\ UNCHANGED <<parserVars, handled>>
         ELSE /\ EApduProtocolParse(f, requests[f.req].total, f.index)
              /\ UNCHANGED <<receiving, spoilt>>
    ELSE /\ UNCHANGED spoilt
         /\ \/ /\ receiving' \in {receiving, TRUE}
               /\ UNCHANGED <<busy, total, packets, handled>>
            \/ /\ ~receiving /\ f.index > 0
               /\ \E p1 \in 0..MAX_PACKETS + 1, p2 \in 0..MAX_PACKETS :
                     EApduProtocolParse(f, p1, p2)
               /\ UNCHANGED receiving

(* DataParserTask: a message.  What a torn chunk does is left open: the     *)
(* model ends there.                                                        *)
Take ==
    /\ ~busy /\ queue # <<>> /\ ~torn
    /\ LET n == Head(queue)
           cells == Got(n)
       IN  /\ tail' = TailAfter(Len(cells))
           /\ IF IsFrame(cells, n)
              THEN /\ frame' = cells[1][1] /\ sent' = Tail(sent) /\ UNCHANGED torn
                   /\ ProtocolReceivedData(cells[1][1])
              ELSE /\ torn' = TRUE
                   /\ UNCHANGED <<parserVars, frame, sent, handled, spoilt>>
    /\ queue' = Tail(queue)
    /\ UNCHANGED <<hostVars, usb, ring, head, saved, ahead>>

(* A handler, or the answer to a wrong header, returns after its last       *)
(* UserDelay.                                                               *)
Return ==
    /\ busy /\ busy' = FALSE
    /\ UNCHANGED <<hostVars, ringVars, receiving, total, packets, history>>

(* FileTransTimeOutTimerFunc, or the end of the file *)
FileOver ==
    /\ receiving /\ receiving' = FALSE
    /\ UNCHANGED <<hostVars, ringVars, busy, total, packets, history>>

(* The host has asked for all it may; the device waits. *)
Finished ==
    /\ \/ torn
       \/ /\ Len(requests) = MaxRequests /\ next = requests[MaxRequests].total
          /\ usb = Idle /\ queue = <<>> /\ ~busy
    /\ UNCHANGED vars

Next ==
    \/ \E n \in 1..MaxTotal : Begin("eapdu", n)
    \/ \E n \in 1..MaxChunks : Begin("internal", n)
    \/ GoOn \/ PutByte \/ DropOldest \/ Announce
    \/ Take \/ Return \/ FileOver \/ Finished

(* Both tasks run; nothing makes the host go on. *)
Fairness == WF_vars(PutByte \/ DropOldest \/ Announce) /\ WF_vars(Take) /\ WF_vars(Return)

Spec == Init /\ [][Next]_vars /\ Fairness

-----------------------------------------------------------------------------
(* Properties.                                                              *)

(* The ring, the queue and the packets stay within their bounds: the count  *)
(* of packets and their indices never pass MAX_PACKETS.                     *)
TypeOK ==
    /\ requests \in Seq([kind : Kinds, total : 1..MaxTotal]) /\ Len(requests) <= MaxRequests
    /\ next \in 0..MaxTotal
    /\ usb \in [frame : Frames \cup {NoFrame}, done : 0..FrameLen]
    /\ ring \in [Cells -> (Frames \cup {NoFrame}) \X (0..FrameLen)]
    /\ head \in Cells /\ tail \in Cells /\ saved \in Cells \cup {NoTail}
    /\ queue \in Seq(1..FrameLen) /\ Len(queue) <= QueueLen
    /\ {busy, receiving, torn, ahead} \subseteq BOOLEAN
    /\ total \in 0..MAX_PACKETS
    /\ Received \subseteq 0..MAX_PACKETS - 1 /\ {packets[i] : i \in Received} \subseteq Frames
    /\ sent \in Seq(Frames) /\ frame \in Frames \cup {NoFrame}
    /\ spoilt \subseteq 1..MaxRequests

(* As long as the host is fewer frames ahead than the queue has places, the *)
(* parser is never given a chunk that is not a frame the host sent: the     *)
(* bytes a queued length speaks of are in the ring, although put may move   *)
(* the reader's index and the parser may run in the middle of it.  The ring *)
(* of 32 full frames holds a byte less than them.                           *)
FramesIntact == torn => ahead

(* As long as the host is not that far ahead, the receive path implements   *)
(* a line of frames: what the parser takes is what the host sent first      *)
(* among what was not yet taken.                                            *)
Line == INSTANCE FrameLine WITH line <- sent
IsFrameLine == Line!Init /\ [][Line!Next \/ ahead']_<<sent, frame>>

(* A request that found the parser empty, and whose frames all reached it,  *)
(* is handled at most once, with its own packets and all of them.           *)
CleanRequestsWhole ==
    ~ahead => \A k \in DOMAIN handled :
        LET r == handled[k].req IN
        requests[r].kind = "eapdu" /\ r \notin spoilt =>
            /\ handled[k].data = [i \in 1..requests[r].total |-> [req |-> r, index |-> i - 1]]
            /\ \A l \in DOMAIN handled : handled[l].req = r => l = k

(* No packet is handed to a handler twice, whatever was given up, swallowed *)
(* or taken for a frame before: free_parser follows every handler.          *)
NothingTwice ==
    \A k, l \in DOMAIN handled :
        \A i \in DOMAIN handled[k].data, j \in DOMAIN handled[l].data :
            handled[k].data[i] = handled[l].data[j] => k = l /\ i = j
PacketsUsedOnce == ahead \/ NothingTwice

(* A request that was sent to its end is handled, unless it met the rest of *)
(* another one or a file was being received: no frame of it is left in the  *)
(* ring and no message of it in the queue.                                  *)
SentInFull(r) ==
    /\ r = Len(requests) /\ next = requests[r].total
    /\ requests[r].kind = "eapdu" /\ requests[r].total <= MAX_PACKETS
WasHandled(r) == \E k \in DOMAIN handled : handled[k].req = r
SentRequestsHandled ==
    \A r \in 1..MaxRequests : SentInFull(r) ~> (WasHandled(r) \/ r \in spoilt \/ ahead)

=============================================================================
