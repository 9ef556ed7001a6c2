------------------------- MODULE UsbRequestProofs -------------------------
(***************************************************************************)
(* What the request path of USB keeps, for any queue of the UI task and    *)
(* any number of requests: the two tasks share the id, the globals of the  *)
(* chains and the stack of views, and no lock protects them.  What does is *)
(* the invariant here: which task may be working on the pending request,   *)
(* and what the view on top then shows.  It needs a host that waits for    *)
(* its answers (Orderly).                                                  *)
(*                                                                         *)
(* Two invariants are carried.  RequestInv says who works on the pending   *)
(* request; SeenInv says that the data it works with are those on the      *)
(* display, as long as no data of a next request met a view or a parse of  *)
(* the one before (mixed).                                                 *)
(***************************************************************************)
EXTENDS UsbRequest, SequenceTheorems, TLAPS

USE DEF serviceVars, dataVars, viewVars, queue, history, At, Free, IsMessage

-----------------------------------------------------------------------------
(* Types                                                                    *)

(* The flags are kept apart from the rest: the provers like it so. *)
Flags ==
    /\ checked \in BOOLEAN
    /\ rude \in BOOLEAN /\ early \in BOOLEAN /\ dangling \in BOOLEAN

Places == {"idle", "begun", "allowed", "set", "refusing"}
CallShape == [at : Places, req : Nat, to : Nat, page : BOOLEAN]
AnswerShape == [sending : BOOLEAN, to : Nat, data : Nat, seen : Nat, page : BOOLEAN, close : Nat]

Shapes == call \in CallShape /\ answer \in AnswerShape

Numbers ==
    /\ kinds \in Seq(Kinds) /\ Len(kinds) <= MaxRequests
    /\ id \in 0..Len(kinds) /\ urData \in 0..Len(kinds) /\ hardData \in 0..Len(kinds)
    /\ response \in 0..Len(kinds) /\ shown \in 0..Len(kinds) /\ confirmed \in 0..Len(kinds)
    /\ call.req \in 0..Len(kinds) /\ call.to \in 0..Len(kinds)
    /\ answer.to \in 0..Len(kinds) /\ answer.data \in 0..Len(kinds)
    /\ answer.seen \in 0..Len(kinds)
    /\ \A i \in DOMAIN replies : replies[i].to \in 0..Len(kinds)

Queues ==
    /\ messages \in Seq(Messages) /\ Len(messages) <= UiQueue
    /\ stack \in Seq(Views) /\ stack # <<>> /\ stack[1] = "home"
    /\ answer.sending => answer.close \in 0..Len(stack)
    /\ twice \subseteq Views /\ dropped \subseteq Requests

Reply == [to : Nat, for : Nat, data : Nat, seen : Nat]

Types == Flags /\ Shapes /\ Numbers /\ Queues /\ replies \in Seq(Reply)

LEMMA Basics ==
    ASSUME Types
    PROVE  /\ Len(kinds) \in Nat /\ DOMAIN kinds = 1..Len(kinds)
           /\ Len(stack) \in Nat /\ 1 <= Len(stack) /\ DOMAIN stack = 1..Len(stack)
           /\ Len(messages) \in Nat /\ DOMAIN messages = 1..Len(messages)
           /\ Len(replies) \in Nat /\ DOMAIN replies = 1..Len(replies)
           /\ \A i \in DOMAIN stack : stack[i] \in Views
           /\ Top \in Views /\ Top = stack[Len(stack)]
<1>1. /\ Len(kinds) \in Nat /\ DOMAIN kinds = 1..Len(kinds)
      /\ Len(messages) \in Nat /\ DOMAIN messages = 1..Len(messages)
      /\ Len(replies) \in Nat /\ DOMAIN replies = 1..Len(replies)
  BY DEF Types, Numbers, Queues
<1>2. stack \in Seq(Views) /\ stack # <<>>
  BY DEF Types, Queues
<1>3. Len(stack) \in Nat /\ 1 <= Len(stack) /\ DOMAIN stack = 1..Len(stack)
  BY <1>2, EmptySeq
<1>4. \A i \in 1..Len(stack) : stack[i] \in Views
  BY <1>2, ElementOfSeq
<1> QED
  BY <1>1, <1>3, <1>4 DEF Top

(* Posting to the UI task. *)
LEMMA WithType ==
    ASSUME messages \in Seq(Messages), Len(messages) <= UiQueue, NEW m \in Messages
    PROVE  With(m) \in Seq(Messages) /\ Len(With(m)) <= UiQueue
  BY BoundAssumption DEF With

(* A message the UI task takes. *)
LEMMA TailType ==
    ASSUME messages \in Seq(Messages), Len(messages) <= UiQueue, messages # <<>>
    PROVE  /\ Tail(messages) \in Seq(Messages) /\ Len(Tail(messages)) <= UiQueue
           /\ Len(Tail(messages)) = Len(messages) - 1
           /\ 1 \in DOMAIN messages /\ Head(messages) = messages[1]
           /\ \A i \in DOMAIN Tail(messages) : i + 1 \in DOMAIN messages
                                               /\ Tail(messages)[i] = messages[i + 1]
<1>1. Len(messages) \in Nat \ {0} /\ DOMAIN messages = 1..Len(messages)
  BY EmptySeq
<1>2. Len(Tail(messages)) = Len(messages) - 1 /\ Tail(messages) \in Seq(Messages)
      /\ DOMAIN Tail(messages) = 1..Len(messages) - 1
  BY <1>1
<1>3. \A i \in 1..Len(messages) - 1 : Tail(messages)[i] = messages[i + 1]
  BY <1>1
<1> QED
  BY <1>1, <1>2, <1>3, BoundAssumption

(* Opening a view that is not open puts it on top. *)
LEMMA OpenEffect ==
    ASSUME Types, NEW v \in Views, Open(v)
    PROVE  /\ stack' \in Seq(Views) /\ stack' # <<>> /\ stack'[1] = "home"
           /\ twice' \subseteq Views
           /\ \/ IsOpen(v) /\ stack' = stack
              \/ /\ ~IsOpen(v) /\ Len(stack') = Len(stack) + 1 /\ Top' = v
                 /\ DOMAIN stack' = 1..Len(stack) + 1
                 /\ \A i \in DOMAIN stack : stack'[i] = stack[i]
                 /\ stack'[Len(stack) + 1] = v
<1>1. stack \in Seq(Views) /\ Len(stack) \in Nat /\ 1 <= Len(stack) /\ stack[1] = "home"
      /\ DOMAIN stack = 1..Len(stack) /\ twice \subseteq Views
  BY Basics DEF Types, Queues
<1>2. CASE IsOpen(v)
  BY <1>1, <1>2 DEF Open, Types, Queues
<1>3. CASE ~IsOpen(v)
<2>1. stack' = Append(stack, v) /\ twice' = twice
  BY <1>3 DEF Open
<2>2. stack' \in Seq(Views) /\ Len(stack') = Len(stack) + 1
      /\ DOMAIN stack' = 1..Len(stack) + 1
  BY <1>1, <2>1
<2>3. /\ \A i \in 1..Len(stack) : stack'[i] = stack[i]
      /\ stack'[Len(stack) + 1] = v
  BY <1>1, <2>1
<2>4. stack' # <<>> /\ stack'[1] = "home"
  BY <1>1, <2>2, <2>3
<2>5. Top' = v
  BY <2>2, <2>3 DEF Top
<2> QED
  BY <1>1, <1>3, <2>1, <2>2, <2>3, <2>4, <2>5
<1> QED
  BY <1>2, <1>3

(* Closing leaves the views below, and frees what the ones above held. *)
LEMMA CloseEffect ==
    ASSUME Types, NEW n \in 1..Len(stack), CloseAbove(n)
    PROVE  /\ stack' \in Seq(Views) /\ stack' # <<>> /\ stack'[1] = "home"
           /\ Len(stack') = n /\ DOMAIN stack' = 1..n /\ Top' = stack[n]
           /\ \A i \in 1..n : stack'[i] = stack[i]
           /\ \/ UNCHANGED <<hardData, response, early>>
              \/ /\ hardData' = Freed /\ response' = Freed
                 /\ \E i \in n + 1..Len(stack) : stack[i] = "hardware"
                 /\ early' = (early \/ IsComing("hardware"))
<1>1. stack \in Seq(Views) /\ Len(stack) \in Nat /\ stack[1] = "home"
      /\ stack' = SubSeq(stack, 1, n) /\ n \in Nat /\ 1 <= n /\ n <= Len(stack)
  BY Basics DEF Types, Queues, CloseAbove
<1>2. stack' \in Seq(Views) /\ Len(stack') = n /\ DOMAIN stack' = 1..n
      /\ \A i \in 1..n : stack'[i] = stack[i]
  BY <1>1
<1>3. stack' # <<>> /\ stack'[1] = "home"
  BY <1>1, <1>2
<1>4. Top' = stack[n]
  BY <1>1, <1>2 DEF Top
<1>5. \/ UNCHANGED <<hardData, response, early>>
      \/ /\ hardData' = Freed /\ response' = Freed
         /\ \E i \in n + 1..Len(stack) : stack[i] = "hardware"
         /\ early' = (early \/ IsComing("hardware"))
  BY Zenon DEF CloseAbove, GuiKeyDerivationRequestDeInit
<1> QED
  BY <1>2, <1>3, <1>4, <1>5

(* What the record of an answer becomes, and that of a call. *)
Answers(data, seen, page, close) ==
    answer' = [sending |-> TRUE, to |-> id, data |-> data, seen |-> seen,
               page |-> page, close |-> close]
Calls(at, req, to, page) ==
    call' = [at |-> at, req |-> req, to |-> to, page |-> page]

LEMMA SendNothing ==
    ASSUME NEW own, NEW c,
           Send([NoAnswer EXCEPT !.close = c], own) \/ (c = 0 /\ Send(NoAnswer, own))
    PROVE  Answers(0, 0, FALSE, c) /\ (stray' <=> (stray \/ id # own))
  BY DEF Send, NoAnswer, Answers

LEMMA SendData ==
    ASSUME NEW own, NEW d, NEW s, NEW p \in BOOLEAN,
           Send([NoAnswer EXCEPT !.data = d, !.seen = s, !.page = p], own)
    PROVE  Answers(d, s, p, 0) /\ (stray' <=> (stray \/ id # own))
  BY DEF Send, NoAnswer, Answers

LEMMA SendDataOnly ==
    ASSUME NEW own, NEW d, Send([NoAnswer EXCEPT !.data = d, !.seen = d], own)
    PROVE  Answers(d, d, FALSE, 0) /\ (stray' <=> (stray \/ id # own))
  BY DEF Send, NoAnswer, Answers

LEMMA CallForms ==
    ASSUME Types
    PROVE  /\ \A to, page : Refuse(to, page) => Calls("refusing", call.req, to, page)
           /\ call' = [call EXCEPT !.at = "allowed"] =>
                  Calls("allowed", call.req, call.to, call.page)
           /\ call' = [call EXCEPT !.at = "set"] =>
                  Calls("set", call.req, call.to, call.page)
           /\ call' = NoCall => Calls("idle", 0, 0, FALSE)
  BY DEF Types, Shapes, CallShape, Refuse, Calls, NoCall, Idle

LEMMA CallsRecord ==
    ASSUME NEW at \in Places, NEW req \in Nat, NEW to \in Nat, NEW page \in BOOLEAN,
           Calls(at, req, to, page)
    PROVE  /\ call' \in CallShape
           /\ call'.at = at /\ call'.req = req /\ call'.to = to /\ call'.page = page
  BY DEF Calls, CallShape

LEMMA RefuseRecord ==
    ASSUME Types, NEW to, NEW page \in BOOLEAN, to = id, Refuse(to, page)
    PROVE  call' \in CallShape /\ call'.at = "refusing" /\ call'.req = call.req /\ call'.to = to
<1>1. call \in CallShape /\ id \in Nat
  BY DEF Types, Shapes, Numbers
<1> QED
  BY <1>1 DEF Refuse, CallShape, Places

LEMMA AtRecord ==
    ASSUME Types, NEW at \in Places, call' = [call EXCEPT !.at = at]
    PROVE  call' \in CallShape /\ call'.at = at /\ call'.req = call.req /\ call'.to = call.to
  BY DEF Types, Shapes, CallShape

LEMMA NoCallRecord ==
    ASSUME call' = NoCall
    PROVE  call' \in CallShape /\ call'.at = "idle" /\ call'.req = 0 /\ call'.to = 0
  BY DEF NoCall, CallShape, Places, Idle

LEMMA AnswersRecord ==
    ASSUME Types, NEW data \in Nat, NEW seen \in Nat, NEW page \in BOOLEAN, NEW close \in Nat,
           Answers(data, seen, page, close)
    PROVE  /\ answer' \in AnswerShape
           /\ answer'.sending /\ answer'.to = id /\ answer'.data = data
           /\ answer'.seen = seen /\ answer'.page = page /\ answer'.close = close
<1>1. id \in Nat
  BY DEF Types, Numbers
<1> QED
  BY <1>1 DEF Answers, AnswerShape

OnlyOne(m) == \A i, j \in DOMAIN messages : messages[i] = m /\ messages[j] = m => i = j

LEMMA WithComing ==
    ASSUME Types, NEW m \in Messages, messages' = With(m), NEW k
    PROVE  /\ IsComing(k)' => IsComing(k) \/ k = m
           /\ OnlyOne(k) /\ (k = m => ~IsComing(k)) => OnlyOne(k)'
<1>1. messages \in Seq(Messages) /\ Len(messages) \in Nat /\ DOMAIN messages = 1..Len(messages)
  BY Basics DEF Types, Queues
<1>2. CASE messages' = messages
  BY <1>2 DEF IsComing, OnlyOne
<1>3. CASE messages' = Append(messages, m)
<2>1. /\ DOMAIN messages' = 1..Len(messages) + 1
      /\ \A i \in 1..Len(messages) : messages'[i] = messages[i]
      /\ messages'[Len(messages) + 1] = m
  BY <1>1, <1>3
<2>2. \A i \in DOMAIN messages' : i \in DOMAIN messages \/ i = Len(messages) + 1
  BY <1>1, <2>1
<2>3. IsComing(k)' => IsComing(k) \/ k = m
  BY <1>1, <2>1, <2>2 DEF IsComing
<2>4. ASSUME OnlyOne(k), k = m => ~IsComing(k) PROVE OnlyOne(k)'
  BY <1>1, <2>1, <2>2, <2>4 DEF IsComing, OnlyOne
<2> QED
  BY <2>3, <2>4
<1> QED
  BY <1>2, <1>3 DEF With

LEMMA PostSeen ==
    ASSUME Types, NEW m \in Messages, Post(m), NEW k
    PROVE  /\ messages' \in Seq(Messages) /\ Len(messages') <= UiQueue
           /\ IsComing(k)' => IsComing(k) \/ k = m
           /\ OnlyOne(k) /\ (k = m => ~IsComing(k)) => OnlyOne(k)'
<1>1. CASE messages' = messages
  BY <1>1 DEF IsComing, OnlyOne, Types, Queues
<1>2. CASE messages' = With(m)
  BY <1>2, WithType, WithComing DEF Types, Queues
<1> QED
  BY <1>1, <1>2 DEF Post

LEMMA PostResultSeen ==
    ASSUME Types, PostResult \/ UNCHANGED messages, NEW k, k # "result"
    PROVE  /\ messages' \in Seq(Messages) /\ Len(messages') <= UiQueue
           /\ (IsComing(k)' => IsComing(k)) /\ (OnlyOne(k) => OnlyOne(k)')
<1>1. CASE messages' = messages
  BY <1>1 DEF IsComing, OnlyOne, Types, Queues
<1>2. CASE Post("result")
  BY <1>2, PostSeen DEF Messages
<1> QED
  BY <1>1, <1>2 DEF PostResult

LEMMA TailComing ==
    ASSUME Types, NEW m, IsMessage(m), NEW k
    PROVE  /\ IsComing(m) /\ (IsComing(k)' => IsComing(k)) /\ (OnlyOne(k) => OnlyOne(k)')
           /\ OnlyOne(m) => ~IsComing(m)'
<1>1. /\ messages' = Tail(messages) /\ messages # <<>> /\ Head(messages) = m
      /\ messages \in Seq(Messages) /\ Len(messages) <= UiQueue
  BY DEF Types, Queues
<1>2. /\ 1 \in DOMAIN messages /\ messages[1] = m
      /\ \A i \in DOMAIN messages' : i + 1 \in DOMAIN messages /\ messages'[i] = messages[i + 1]
  BY <1>1, TailType
<1>3. DOMAIN messages' = 1..Len(messages) - 1 /\ Len(messages) \in Nat
  BY <1>1, TailType, LenProperties
<1>4. IsComing(m) /\ (IsComing(k)' => IsComing(k))
  BY <1>2 DEF IsComing
<1>5. ASSUME OnlyOne(k) PROVE OnlyOne(k)'
<2> SUFFICES ASSUME NEW i \in DOMAIN messages', NEW j \in DOMAIN messages',
                    messages'[i] = k, messages'[j] = k
             PROVE  i = j
  BY DEF OnlyOne
<2>1. i + 1 = j + 1
  BY <1>2, <1>5 DEF OnlyOne
<2> QED
  BY <2>1, <1>3
<1>6. ASSUME OnlyOne(m), IsComing(m)' PROVE FALSE
<2>1. PICK i \in DOMAIN messages' : messages'[i] = m
  BY <1>6 DEF IsComing
<2>2. i + 1 = 1
  BY <1>2, <1>6, <2>1 DEF OnlyOne
<2> QED
  BY <2>1, <2>2, <1>3
<1> QED
  BY <1>4, <1>5, <1>6

-----------------------------------------------------------------------------
(* The invariant                                                            *)

(* The request that has the device is the last one, and nobody answered it. *)
IdInv ==
    id # Idle => id = Len(kinds) /\ \A i \in DOMAIN replies : replies[i].to # id

(* Each of the globals holds a request of the kind it is for. *)
KindInv ==
    /\ urData # Freed => kinds[urData] = "sign"
    /\ hardData # Freed => kinds[hardData] = "hardware"
    /\ response \in {Freed, hardData}

(* The data parser task works on the request that has the device. *)
CallInv ==
    /\ call.at \in {"begun", "allowed", "set"} => id = call.req /\ id # Idle
    /\ call.at \in {"begun", "allowed"} => urData # id
    /\ call.at \in {"allowed", "set"} => kinds[id] = "sign" /\ Top # "detail"
    /\ call.at = "refusing" =>
           /\ call.to \in {Idle, id}
           /\ id # Idle /\ urData = id => Top # "detail"
    /\ call.at # "idle" => id = Idle \/ hardData # id

(* A view that is about to open finds its request pending. *)
ComingInv ==
    /\ IsComing("detail") =>
           call.at = "idle" /\ id # Idle /\ kinds[id] = "sign" /\ Top # "detail"
    /\ IsComing("hardware") =>
           /\ call.at = "idle" /\ id # Idle /\ kinds[id] = "hardware"
           /\ Top = "hardware" => checked
           /\ early \/ hardData = id
    /\ OnlyOne("detail") /\ OnlyOne("hardware")

(* The home view is at the bottom, and a connection view lies on no         *)
(* transaction and on no other connection view.                             *)
Bottom ==
    /\ \A i \in DOMAIN stack : stack[i] = "home" <=> i = 1
    /\ \A i, j \in DOMAIN stack : stack[i] = "hardware" /\ stack[j] = "hardware" => i = j

StackInv ==
    /\ Bottom
    /\ Top = "hardware" \/ IsComing("hardware") => ~IsOpen("detail")

(* A connection view that waits for the user has what it is to answer from. *)
ViewInv ==
    Top = "hardware" /\ ~checked =>
        /\ id # Idle /\ call.at = "idle"
        /\ early \/ response # Freed

(* While an answer is sent the UI task does nothing else.                   *)
AnswerInv ==
    answer.sending =>
        /\ id = answer.to /\ id # Idle /\ call.at = "idle"
        /\ ~IsComing("detail") /\ ~IsComing("hardware")
        /\ \/ Top = "detail" /\ answer.close \in {0, 1}
           \/ Top = "hardware" /\ answer.close = (IF checked THEN 0 ELSE Len(stack) - 1)

Core ==
    /\ IdInv /\ KindInv /\ CallInv /\ ComingInv /\ StackInv /\ ViewInv /\ AnswerInv
    /\ AnsweredOnce /\ ResponseAlive

RequestInv == Orderly => Core

(* The parses under way, kept apart from the types of the rest. *)
ParseTypes ==
    /\ lost \in BOOLEAN /\ mixed \in BOOLEAN
    /\ parses \in Seq(Int)
    /\ \A i \in DOMAIN parses : parses[i] = Asked \/ parses[i] \in 0..Len(kinds)

(* What a transaction view shows, what is parsed for it and what it signs   *)
(* are one request: the parse begins when the data are set and not before.  *)
DataInv ==
    ~mixed =>
        /\ Len(parses) <= 1
        /\ call.at = "set" \/ IsComing("detail") => urData = id /\ parses = <<>>
        /\ Top = "detail" =>
               /\ {shown, confirmed} \subseteq {Freed, urData}
               /\ parses # <<>> => urData # Freed
               /\ \A i \in DOMAIN parses : parses[i] \in {Asked, urData}
        /\ answer.sending /\ (answer.data # 0 \/ answer.seen # 0) =>
               answer.data = answer.seen /\ answer.data = id

SeenInv == Orderly => DataInv /\ SignedIsSeen

LEMMA SameMessages ==
    ASSUME messages' = messages, NEW k
    PROVE  (IsComing(k)' <=> IsComing(k)) /\ (OnlyOne(k)' <=> OnlyOne(k))
  BY DEF IsComing, OnlyOne

LEMMA SameStack ==
    ASSUME stack' = stack, NEW k
    PROVE  Top' = Top /\ (IsOpen(k)' <=> IsOpen(k)) /\ (Bottom' <=> Bottom)
  BY DEF Top, IsOpen, Bottom

(* The home view on top is alone. *)
LEMMA HomeAlone ==
    ASSUME Types, Bottom, Top = "home"
    PROVE  Len(stack) = 1 /\ \A v : IsOpen(v) => v = "home"
<1>1. Len(stack) = 1
  BY Basics DEF Bottom, Top
<1> QED
  BY <1>1, Basics DEF IsOpen, Types, Queues

(* What opening a view and closing views do, as the invariant sees it. *)
LEMMA OpenSeen ==
    ASSUME Types, NEW v \in Views, v # "home", Open(v)
    PROVE  /\ stack' \in Seq(Views) /\ stack' # <<>> /\ stack'[1] = "home"
           /\ Len(stack') \in Nat /\ Len(stack) <= Len(stack') /\ twice' \subseteq Views
           /\ \/ IsOpen(v) /\ stack' = stack /\ Top' = Top
              \/ ~IsOpen(v) /\ Top' = v
           /\ \A k : k # v => (IsOpen(k)' <=> IsOpen(k))
           /\ Bottom => Bottom'
<1>1. CASE IsOpen(v) /\ stack' = stack
<2>1. Top' = Top /\ (\A k : IsOpen(k)' <=> IsOpen(k)) /\ (Bottom' <=> Bottom)
  BY <1>1, SameStack
<2>2. stack' \in Seq(Views) /\ stack' # <<>> /\ stack'[1] = "home" /\ twice' \subseteq Views
  BY OpenEffect
<2> QED
  BY <1>1, <2>1, <2>2, Basics
<1>2. CASE ~(IsOpen(v) /\ stack' = stack)
<2>1. /\ ~IsOpen(v) /\ Len(stack') = Len(stack) + 1 /\ Top' = v
      /\ DOMAIN stack' = 1..Len(stack) + 1
      /\ \A i \in DOMAIN stack : stack'[i] = stack[i]
      /\ stack'[Len(stack) + 1] = v
  BY <1>2, OpenEffect
<2>2. /\ stack' \in Seq(Views) /\ stack' # <<>> /\ stack'[1] = "home" /\ twice' \subseteq Views
  BY OpenEffect
<2>3. /\ Len(stack) \in Nat /\ 1 <= Len(stack) /\ DOMAIN stack = 1..Len(stack)
      /\ Len(stack) <= Len(stack') /\ Len(stack') \in Nat
  BY <2>1, Basics
<2>4. \A k : k # v => (IsOpen(k)' <=> IsOpen(k))
  BY <2>1, <2>3 DEF IsOpen
<2>5. ASSUME Bottom PROVE Bottom'
  <3>1. \A i \in DOMAIN stack' : stack'[i] = "home" <=> i = 1
    BY <2>1, <2>3, <2>5 DEF Bottom
  <3>2. \A i, j \in DOMAIN stack' : stack'[i] = "hardware" /\ stack'[j] = "hardware" => i = j
    BY <2>1, <2>3, <2>5 DEF Bottom, IsOpen
  <3> QED
    BY <3>1, <3>2 DEF Bottom
<2> QED
  BY <2>1, <2>2, <2>3, <2>4, <2>5
<1> QED
  BY <1>1, <1>2

LEMMA CloseSeen ==
    ASSUME Types, NEW n \in 1..Len(stack), CloseAbove(n)
    PROVE  /\ stack' \in Seq(Views) /\ stack' # <<>> /\ stack'[1] = "home"
           /\ Len(stack') = n /\ n \in Nat
           /\ early' \in BOOLEAN /\ urData' \in {urData, 0}
           /\ \/ UNCHANGED <<hardData, response, early>>
              \/ hardData' = 0 /\ response' = 0 /\ (early' <=> early \/ IsComing("hardware"))
           /\ UNCHANGED <<shown, confirmed>> \/ (shown' = 0 /\ confirmed' = 0)
           /\ \A k : IsOpen(k)' => IsOpen(k)
           /\ Bottom => Bottom'
           /\ n = 1 => Top' = "home"
           /\ n = Len(stack) => UNCHANGED <<stack, dataVars, early, parses, shown, confirmed, mixed>>
                                /\ Top' = Top
           /\ Bottom /\ Top = "hardware" /\ n # Len(stack) => Top' # "hardware"
           /\ Top' # Top => IsOpen(Top')
<1>1. /\ stack' \in Seq(Views) /\ stack' # <<>> /\ stack'[1] = "home"
      /\ Len(stack') = n /\ DOMAIN stack' = 1..n /\ Top' = stack[n]
      /\ \A i \in 1..n : stack'[i] = stack[i]
  BY CloseEffect
<1>2. /\ Len(stack) \in Nat /\ 1 <= Len(stack) /\ DOMAIN stack = 1..Len(stack)
      /\ Top = stack[Len(stack)] /\ n \in Nat /\ 1 <= n /\ n <= Len(stack)
      /\ stack[1] = "home"
  BY Basics DEF Types, Queues
<1>3. \/ UNCHANGED <<hardData, response, early>>
      \/ hardData' = 0 /\ response' = 0 /\ (early' <=> early \/ IsComing("hardware"))
<2>1. \/ UNCHANGED <<hardData, response, early>>
      \/ hardData' = 0 /\ response' = 0 /\ early' = (early \/ IsComing("hardware"))
  BY Zenon DEF CloseAbove, GuiKeyDerivationRequestDeInit, Freed
<2> QED
  BY <2>1
<1>4. early' \in BOOLEAN
  BY CloseEffect DEF Types, Flags
<1>5. UNCHANGED <<shown, confirmed>> \/ (shown' = 0 /\ confirmed' = 0)
  BY Zenon DEF CloseAbove, GuiTransactionDetailDeInit, Freed
<1>12. urData' \in {urData, 0}
<2>1. urData' = urData \/ urData' = 0
  BY Zenon DEF CloseAbove, GuiTransactionDetailDeInit, Freed
<2> QED
  BY <2>1
<1>6. \A k : IsOpen(k)' => IsOpen(k)
  BY <1>1, <1>2 DEF IsOpen
<1>7. Bottom => Bottom'
  BY <1>1, <1>2 DEF Bottom
<1>8. n = 1 => Top' = "home"
  BY <1>1, <1>2
<1>9. ASSUME n = Len(stack)
      PROVE  UNCHANGED <<stack, dataVars, early, parses, shown, confirmed, mixed>> /\ Top' = Top
<2>1. stack' = stack /\ n + 1..Len(stack) = {}
  BY <1>1, <1>2, <1>9 DEF Types, Queues
<2> QED
  BY <2>1, <1>1, <1>2, <1>9 DEF CloseAbove
<1>10. Bottom /\ Top = "hardware" /\ n # Len(stack) => Top' # "hardware"
<2>1. ASSUME Bottom, stack[Len(stack)] = "hardware", stack[n] = "hardware" PROVE n = Len(stack)
  <3>1. n \in DOMAIN stack /\ Len(stack) \in DOMAIN stack
    BY <1>2
  <3> QED
    BY <2>1, <3>1 DEF Bottom
<2> QED
  BY <2>1, <1>1, <1>2
<1>11. Top' # Top => IsOpen(Top')
  BY <1>1, <1>2 DEF IsOpen
<1> QED
  BY <1>1, <1>2, <1>3, <1>4, <1>5, <1>6, <1>7, <1>8, <1>9, <1>10, <1>11, <1>12

LEMMA QrSeen ==
    ASSUME Types, stack' = Append(stack, "qr")
    PROVE  /\ stack' \in Seq(Views) /\ stack' # <<>> /\ stack'[1] = "home"
           /\ Len(stack') \in Nat /\ Len(stack) <= Len(stack') /\ Top' = "qr"
           /\ IsOpen("detail")' <=> IsOpen("detail")
           /\ Bottom => Bottom'
<1>1. /\ stack \in Seq(Views) /\ Len(stack) \in Nat /\ 1 <= Len(stack) /\ stack[1] = "home"
      /\ DOMAIN stack = 1..Len(stack) /\ "qr" \in Views
  BY Basics DEF Types, Queues, Views
<1>2. /\ stack' \in Seq(Views) /\ Len(stack') = Len(stack) + 1 /\ DOMAIN stack' = 1..Len(stack) + 1
      /\ \A i \in 1..Len(stack) : stack'[i] = stack[i]
      /\ stack'[Len(stack) + 1] = "qr"
  BY <1>1
<1>3. stack' # <<>> /\ stack'[1] = "home" /\ Top' = "qr"
  BY <1>1, <1>2 DEF Top
<1>4. IsOpen("detail")' <=> IsOpen("detail")
  BY <1>1, <1>2 DEF IsOpen
<1>5. Bottom => Bottom'
  BY <1>1, <1>2 DEF Bottom
<1> QED
  BY <1>1, <1>2, <1>3, <1>4, <1>5

LEMMA DroppedType ==
    ASSUME Types, dropped' = dropped \cup ({id} \ {0}) \/ (id # 0 /\ dropped' = dropped \cup {id})
    PROVE  dropped' \subseteq Requests
<1>1. id = 0 \/ id \in Requests
  BY Basics, BoundAssumption DEF Types, Numbers, Requests
<1> QED
  BY <1>1 DEF Types, Queues

LEMMA TopBelow ==
    ASSUME Types, Top # "home"
    PROVE  Len(stack) - 1 \in 1..Len(stack) /\ Len(stack) - 1 # Len(stack) /\ Len(stack) - 1 # 0
<1>1. Len(stack) \in Nat /\ 1 <= Len(stack) /\ Len(stack) # 1
  BY Basics DEF Types, Queues, Top
<1>2. \A n \in Nat : 1 <= n /\ n # 1 => n - 1 \in 1..n /\ n - 1 # n /\ n - 1 # 0
  OBVIOUS
<1> QED
  BY <1>1, <1>2

(* An answer is recorded. *)
LEMMA ReplyAppended ==
    ASSUME Types, NEW e \in Reply, replies' = Append(replies, e)
    PROVE  /\ replies' \in Seq(Reply) /\ Len(replies') = Len(replies) + 1
           /\ DOMAIN replies' = 1..Len(replies')
           /\ \A i \in 1..Len(replies) : replies'[i] = replies[i]
           /\ replies'[Len(replies) + 1] = e
<1>1. replies \in Seq(Reply) /\ Len(replies) \in Nat /\ DOMAIN replies = 1..Len(replies)
  BY Basics DEF Types
<1> QED
  BY <1>1

LEMMA ClosedNumbers ==
    ASSUME Types, UNCHANGED kinds,
           UNCHANGED <<hardData, response>> \/ (hardData' = 0 /\ response' = 0),
           UNCHANGED <<shown, confirmed>> \/ (shown' = 0 /\ confirmed' = 0),
           urData' \in {urData, 0}
    PROVE  /\ urData' \in 0..Len(kinds) /\ hardData' \in 0..Len(kinds) /\ response' \in 0..Len(kinds)
           /\ shown' \in 0..Len(kinds) /\ confirmed' \in 0..Len(kinds)
<1>1. /\ urData \in 0..Len(kinds) /\ hardData \in 0..Len(kinds) /\ response \in 0..Len(kinds)
      /\ shown \in 0..Len(kinds) /\ confirmed \in 0..Len(kinds)
  BY DEF Types, Numbers
<1>2. 0 \in 0..Len(kinds)
  BY Basics
<1> QED
  BY <1>1, <1>2

-----------------------------------------------------------------------------
(* Steps of the data parser task                                            *)

(* The host asks: nothing of an earlier request is pending, or it is not
   orderly. *)
LEMMA ReceiveStep ==
    ASSUME Types, NEW kind \in Kinds, Receive(kind)
    PROVE  Types' /\ (RequestInv => RequestInv')
<1>1. /\ kinds' = Append(kinds, kind) /\ call.at = "idle" /\ Len(kinds) < MaxRequests
      /\ rude' \in BOOLEAN /\ (~rude' => ~rude /\ id = Idle)
      /\ UNCHANGED <<urData, hardData, response, messages, stack, shown, confirmed,
                     checked, answer, replies, dropped, twice, stray, early, dangling>>
  BY DEF Receive, Types, Flags
<1>2. /\ kinds' \in Seq(Kinds) /\ Len(kinds') = Len(kinds) + 1
      /\ \A i \in 1..Len(kinds) : kinds'[i] = kinds[i]
  BY <1>1 DEF Types, Numbers
<1>3. \/ id' = Len(kinds') /\ Calls("begun", Len(kinds'), 0, FALSE)
      \/ id' = id /\ id = Idle /\ Calls("refusing", Len(kinds'), id, FALSE)
      \/ id' = id /\ id # Idle /\ Calls("refusing", Len(kinds'), Len(kinds'), FALSE)
  BY DEF Receive, Calls, NoCall, NothingPending, Idle
<1>4. /\ call' \in CallShape /\ call'.req = Len(kinds')
      /\ \/ id' = Len(kinds') /\ call'.at = "begun" /\ call'.to = 0
         \/ id' = 0 /\ id = 0 /\ call'.at = "refusing" /\ call'.to = 0
         \/ id' = id /\ id # 0 /\ call'.at = "refusing" /\ call'.to = Len(kinds')
<2>1. Len(kinds') \in Nat /\ 0 \in Nat /\ "begun" \in Places /\ "refusing" \in Places
  BY <1>2, Basics DEF Places
<2>2. CASE id' = Len(kinds') /\ Calls("begun", Len(kinds'), 0, FALSE)
  BY <2>1, <2>2, CallsRecord
<2>3. CASE id' = id /\ id = Idle /\ Calls("refusing", Len(kinds'), id, FALSE)
  BY <2>1, <2>3, CallsRecord DEF Idle
<2>4. CASE id' = id /\ id # Idle /\ Calls("refusing", Len(kinds'), Len(kinds'), FALSE)
  BY <2>1, <2>4, CallsRecord DEF Idle
<2> QED
  BY <1>3, <2>2, <2>3, <2>4
<1>5. /\ IsComing("detail")' <=> IsComing("detail")
      /\ IsComing("hardware")' <=> IsComing("hardware")
      /\ OnlyOne("detail")' <=> OnlyOne("detail")
      /\ OnlyOne("hardware")' <=> OnlyOne("hardware")
  BY <1>1, SameMessages
<1>6. Top' = Top /\ (IsOpen("detail")' <=> IsOpen("detail")) /\ (Bottom' <=> Bottom)
  BY <1>1, SameStack
<1>7. Types'
<2>1. Flags'
  BY <1>1 DEF Types, Flags
<2>2. Shapes'
  BY <1>1, <1>4 DEF Types, Shapes
<2>3. Numbers'
<3>1. Len(kinds) \in Nat /\ Len(kinds') = Len(kinds) + 1 /\ Numbers
  BY <1>2, Basics DEF Types
<3>2. 0..Len(kinds) \subseteq 0..Len(kinds') /\ 0 \in 0..Len(kinds')
      /\ Len(kinds') \in 0..Len(kinds') /\ Len(kinds') <= MaxRequests
  BY <1>1, <3>1, BoundAssumption
<3>3. id' \in 0..Len(kinds') /\ call'.req \in 0..Len(kinds') /\ call'.to \in 0..Len(kinds')
  BY <1>4, <3>1, <3>2 DEF Numbers
<3> QED
  BY <1>1, <1>2, <3>1, <3>2, <3>3 DEF Numbers
<2>4. Queues'
  BY <1>1 DEF Types, Queues
<2>5. replies' \in Seq(Reply)
  BY <1>1 DEF Types
<2> QED
  BY <2>1, <2>2, <2>3, <2>4, <2>5 DEF Types
<1>8. ASSUME RequestInv, Orderly' PROVE RequestInv'
<2>1. Orderly /\ Core
  BY <1>1, <1>8 DEF RequestInv, Orderly
<2>2. IdInv'
<3>1. id' = 0 \/ id' = Len(kinds')
  <4>1. id = Idle
    BY <1>1, <1>8 DEF Orderly
  <4> QED
    BY <1>4, <4>1 DEF Idle
<3>2. \A i \in DOMAIN replies : replies[i].to # Len(kinds')
  <4>1. \A i \in DOMAIN replies : replies[i].to \in 0..Len(kinds)
    BY DEF Types, Numbers
  <4>2. \A n \in 0..Len(kinds) : n # Len(kinds')
    BY <1>2, Basics
  <4> QED
    BY <4>1, <4>2
<3>3. /\ replies' = replies
      /\ id' # 0 => id' = Len(kinds') /\ \A i \in DOMAIN replies : replies[i].to # id'
  BY <1>1, <3>1, <3>2
<3> QED
  BY <3>3 DEF IdInv, Idle
<2>3. KindInv'
  BY <1>1, <1>2, <1>3, <1>4, <2>1, Basics DEF Core, KindInv, Idle, Freed, Types, Numbers
<2>4. CallInv'
<3>1. id = 0 /\ urData' \in 0..Len(kinds) /\ hardData' \in 0..Len(kinds)
  <4>1. id = Idle
    BY <1>1, <1>8 DEF Orderly
  <4> QED
    BY <1>1, <4>1 DEF Idle, Types, Numbers
<3>2. \A n \in 0..Len(kinds) : n # Len(kinds')
  BY <1>2, Basics
<3>3. Len(kinds') # 0
  BY <1>2, Basics
<3>4. CASE id' = Len(kinds') /\ call'.at = "begun"
  BY <1>4, <3>1, <3>2, <3>3, <3>4 DEF CallInv, Idle
<3>5. CASE id' = 0 /\ call'.at = "refusing" /\ call'.to = 0
  BY <3>5 DEF CallInv, Idle
<3> QED
  BY <1>4, <3>1, <3>4, <3>5
<2>5. ComingInv'
  BY <1>1, <1>2, <1>3, <1>4, <1>5, <1>6, <2>1, <1>8, Basics
     DEF Core, IdInv, KindInv, CallInv, ComingInv, StackInv, ViewInv, AnswerInv, Orderly,
         Idle, Freed, Types, Numbers, Flags
<2>6. StackInv'
  BY <1>1, <1>5, <1>6, <2>1 DEF Core, StackInv
<2>7. ViewInv'
  BY <1>1, <1>3, <1>4, <1>6, <2>1, <1>8, Basics
     DEF Core, IdInv, KindInv, CallInv, ComingInv, StackInv, ViewInv, AnswerInv, Orderly,
         Idle, Freed, Types, Numbers, Flags
<2>8. AnswerInv'
  BY <1>1, <1>3, <1>4, <1>5, <1>6, <2>1, <1>8, Basics
     DEF Core, IdInv, KindInv, CallInv, ComingInv, StackInv, ViewInv, AnswerInv, Orderly,
         Idle, Freed, Types, Numbers, Flags
<2>10. AnsweredOnce'
  BY <1>1, <2>1 DEF Core, AnsweredOnce
<2>11. ResponseAlive'
  BY <1>1, <2>1 DEF Core, ResponseAlive
<2> QED
  BY <2>2, <2>3, <2>4, <2>5, <2>6, <2>7, <2>8, <2>10, <2>11 DEF RequestInv, Core
<1> QED
  BY <1>7, <1>8 DEF RequestInv

LEMMA ParseFailsStep ==
    ASSUME Types, ParseFails
    PROVE  Types' /\ (RequestInv => RequestInv')
<1>1. /\ call.at = "begun" /\ Refuse(id, TRUE)
      /\ UNCHANGED <<kinds, id, urData, hardData, response, messages, stack, shown, confirmed,
                     checked, answer, replies, rude, dropped, twice, stray, early, dangling>>
  BY DEF ParseFails
<1>2. /\ call' \in CallShape /\ call'.at = "refusing" /\ call'.req = call.req /\ call'.to = id
  BY <1>1, RefuseRecord
<1>3. /\ IsComing("detail")' <=> IsComing("detail")
      /\ IsComing("hardware")' <=> IsComing("hardware")
      /\ OnlyOne("detail")' <=> OnlyOne("detail")
      /\ OnlyOne("hardware")' <=> OnlyOne("hardware")
  BY <1>1, SameMessages
<1>4. Top' = Top /\ (IsOpen("detail")' <=> IsOpen("detail")) /\ (Bottom' <=> Bottom)
  BY <1>1, SameStack
<1>5. Types'
<2>1. Flags'
  BY <1>1 DEF Types, Flags
<2>2. Shapes'
  BY <1>1, <1>2 DEF Types, Shapes
<2>3. Numbers'
  BY <1>1, <1>2 DEF Types, Numbers
<2>4. Queues'
  BY <1>1 DEF Types, Queues
<2>5. replies' \in Seq(Reply)
  BY <1>1 DEF Types
<2> QED
  BY <2>1, <2>2, <2>3, <2>4, <2>5 DEF Types
<1>6. ASSUME RequestInv, Orderly' PROVE RequestInv'
<2>1. Orderly /\ Core
  BY <1>1, <1>6 DEF RequestInv, Orderly
<2>2. IdInv'
  BY <1>1, <2>1 DEF Core, IdInv
<2>3. KindInv'
  BY <1>1, <2>1 DEF Core, KindInv
<2>4. CallInv'
  BY <1>1, <1>2, <1>4, <2>1 DEF Core, CallInv
<2>5. ComingInv'
  BY <1>1, <1>2, <1>3, <1>4, <2>1 DEF Core, ComingInv
<2>6. StackInv'
  BY <1>1, <1>3, <1>4, <2>1 DEF Core, StackInv
<2>7. ViewInv'
  BY <1>1, <1>2, <1>4, <2>1 DEF Core, ViewInv
<2>8. AnswerInv'
  BY <1>1, <2>1 DEF Core, AnswerInv
<2>10. AnsweredOnce'
  BY <1>1, <2>1 DEF Core, AnsweredOnce
<2>11. ResponseAlive'
  BY <1>1, <2>1 DEF Core, ResponseAlive
<2> QED
  BY <2>2, <2>3, <2>4, <2>5, <2>6, <2>7, <2>8, <2>10, <2>11 DEF RequestInv, Core
<1> QED
  BY <1>5, <1>6 DEF RequestInv

LEMMA ViewTypeUnsupportedStep ==
    ASSUME Types, ViewTypeUnsupported
    PROVE  Types' /\ (RequestInv => RequestInv')
<1>1. /\ call.at = "allowed" /\ Refuse(id, TRUE)
      /\ UNCHANGED <<kinds, id, urData, hardData, response, messages, stack, shown, confirmed,
                     checked, answer, replies, rude, dropped, twice, stray, early, dangling>>
  BY DEF ViewTypeUnsupported
<1>2. /\ call' \in CallShape /\ call'.at = "refusing" /\ call'.req = call.req /\ call'.to = id
  BY <1>1, RefuseRecord
<1>3. /\ IsComing("detail")' <=> IsComing("detail")
      /\ IsComing("hardware")' <=> IsComing("hardware")
      /\ OnlyOne("detail")' <=> OnlyOne("detail")
      /\ OnlyOne("hardware")' <=> OnlyOne("hardware")
  BY <1>1, SameMessages
<1>4. Top' = Top /\ (IsOpen("detail")' <=> IsOpen("detail")) /\ (Bottom' <=> Bottom)
  BY <1>1, SameStack
<1>5. Types'
<2>1. Flags'
  BY <1>1 DEF Types, Flags
<2>2. Shapes'
  BY <1>1, <1>2 DEF Types, Shapes
<2>3. Numbers'
  BY <1>1, <1>2 DEF Types, Numbers
<2>4. Queues'
  BY <1>1 DEF Types, Queues
<2>5. replies' \in Seq(Reply)
  BY <1>1 DEF Types
<2> QED
  BY <2>1, <2>2, <2>3, <2>4, <2>5 DEF Types
<1>6. ASSUME RequestInv, Orderly' PROVE RequestInv'
<2>1. Orderly /\ Core
  BY <1>1, <1>6 DEF RequestInv, Orderly
<2>2. IdInv'
  BY <1>1, <2>1 DEF Core, IdInv
<2>3. KindInv'
  BY <1>1, <2>1 DEF Core, KindInv
<2>4. CallInv'
  BY <1>1, <1>2, <1>4, <2>1 DEF Core, CallInv
<2>5. ComingInv'
  BY <1>1, <1>2, <1>3, <1>4, <2>1 DEF Core, ComingInv
<2>6. StackInv'
  BY <1>1, <1>3, <1>4, <2>1 DEF Core, StackInv
<2>7. ViewInv'
  BY <1>1, <1>2, <1>4, <2>1 DEF Core, ViewInv
<2>8. AnswerInv'
  BY <1>1, <2>1 DEF Core, AnswerInv
<2>10. AnsweredOnce'
  BY <1>1, <2>1 DEF Core, AnsweredOnce
<2>11. ResponseAlive'
  BY <1>1, <2>1 DEF Core, ResponseAlive
<2> QED
  BY <2>2, <2>3, <2>4, <2>5, <2>6, <2>7, <2>8, <2>10, <2>11 DEF RequestInv, Core
<1> QED
  BY <1>5, <1>6 DEF RequestInv

(* From the home view, or a connection view that is open: such a view has
   been approved, or it would still hold the device. *)
LEMMA HandleHardwareCallStep ==
    ASSUME Types, HandleHardwareCall
    PROVE  Types' /\ (RequestInv => RequestInv')
<1>1. /\ call.at = "begun" /\ kinds[call.req] = "hardware"
      /\ \/ /\ Top \in {"hardware", "home"} /\ hardData' = call.req /\ response' = Freed
            /\ Post("hardware") /\ call' = NoCall
         \/ Refuse(id, FALSE) /\ UNCHANGED <<hardData, response, messages>>
      /\ UNCHANGED <<kinds, id, urData, stack, shown, confirmed,
                     checked, answer, replies, rude, dropped, twice, stray, early, dangling>>
  BY DEF HandleHardwareCall
<1>2. /\ call' \in CallShape
      /\ \/ call'.at = "refusing" /\ call'.req = call.req /\ call'.to = id
            /\ UNCHANGED <<hardData, response, messages>>
         \/ /\ call'.at = "idle" /\ call'.req = 0 /\ call'.to = 0
            /\ Top \in {"hardware", "home"} /\ hardData' = call.req /\ response' = 0
            /\ Post("hardware")
  BY <1>1, RefuseRecord, NoCallRecord DEF Freed
<1>3. /\ messages' \in Seq(Messages) /\ Len(messages') <= UiQueue
  BY <1>1, PostSeen DEF Types, Queues, Messages
<1>4. /\ IsComing("detail")' => IsComing("detail")
      /\ OnlyOne("detail") => OnlyOne("detail")'
      /\ IsComing("hardware")' => IsComing("hardware") \/ call'.at = "idle"
      /\ OnlyOne("hardware") /\ ~IsComing("hardware") => OnlyOne("hardware")'
      /\ OnlyOne("hardware") /\ call'.at # "idle" => OnlyOne("hardware")'
  BY <1>2, PostSeen, SameMessages DEF Messages
<1>5. Top' = Top /\ (IsOpen("detail")' <=> IsOpen("detail")) /\ (Bottom' <=> Bottom)
  BY <1>1, SameStack
<1>6. Types'
<2>1. Flags'
  BY <1>1 DEF Types, Flags
<2>2. Shapes'
  BY <1>1, <1>2 DEF Types, Shapes
<2>3. Numbers'
<3>1. Numbers /\ 0 \in 0..Len(kinds)
  BY Basics DEF Types
<3>2. hardData' \in 0..Len(kinds) /\ response' \in 0..Len(kinds)
  BY <1>2, <3>1 DEF Numbers
<3>3. call'.req \in 0..Len(kinds) /\ call'.to \in 0..Len(kinds)
  BY <1>2, <3>1 DEF Numbers
<3>4. UNCHANGED <<kinds, id, urData, shown, confirmed, answer, replies>>
  BY <1>1
<3> QED
  BY <3>1, <3>2, <3>3, <3>4 DEF Numbers
<2>4. Queues'
  BY <1>1, <1>2, <1>3 DEF Types, Queues
<2>5. replies' \in Seq(Reply)
  BY <1>1 DEF Types
<2> QED
  BY <2>1, <2>2, <2>3, <2>4, <2>5 DEF Types
<1>7. ASSUME RequestInv, Orderly' PROVE RequestInv'
<2>1. Orderly /\ Core
  BY <1>1, <1>7 DEF RequestInv, Orderly
<2>2. IdInv'
  BY <1>1, <2>1 DEF Core, IdInv
<2>3. KindInv'
  BY <1>1, <2>1 DEF Core, KindInv
<2>4. CallInv'
  BY <1>1, <1>2, <1>4, <1>5, <2>1 DEF Core, CallInv
<2>5. ComingInv'
  BY <1>1, <1>2, <1>4, <1>5, <2>1, <1>7, Basics
     DEF Core, IdInv, KindInv, CallInv, ComingInv, StackInv, ViewInv, AnswerInv, Orderly,
         Idle, Freed, Types, Numbers, Flags
<2>6. StackInv'
<3>1. Top \in {"home", "hardware"} => ~IsOpen("detail")
  BY <2>1, HomeAlone DEF Core, StackInv
<3> QED
  BY <2>1, <3>1, <1>1, <1>2, <1>4, <1>5 DEF Core, StackInv
<2>7. ViewInv'
  BY <1>1, <1>2, <1>4, <1>5, <2>1 DEF Core, ViewInv
<2>8. AnswerInv'
  BY <1>1, <2>1 DEF Core, AnswerInv
<2>10. AnsweredOnce'
  BY <1>1, <2>1 DEF Core, AnsweredOnce
<2>11. ResponseAlive'
  BY <1>1, <2>1 DEF Core, ResponseAlive
<2> QED
  BY <2>2, <2>3, <2>4, <2>5, <2>6, <2>7, <2>8, <2>10, <2>11 DEF RequestInv, Core
<1> QED
  BY <1>6, <1>7 DEF RequestInv

LEMMA HandleNormalCallStep ==
    ASSUME Types, HandleNormalCall
    PROVE  Types' /\ (RequestInv => RequestInv')
<1>1. /\ call.at = "begun" /\ kinds[call.req] = "sign"
      /\ \/ Top \in {"home", "transport"} /\ call' = [call EXCEPT !.at = "allowed"]
         \/ Refuse(id, FALSE)
      /\ UNCHANGED messages \/ Post("next")
      /\ UNCHANGED <<kinds, id, urData, hardData, response, stack, shown, confirmed,
                     checked, answer, replies, rude, dropped, twice, stray, early, dangling>>
  BY DEF HandleNormalCall, GuiHomePageIsTop
<1>2. /\ call' \in CallShape /\ call'.req = call.req
      /\ \/ call'.at = "allowed" /\ Top \in {"home", "transport"} /\ call'.to = call.to
         \/ call'.at = "refusing" /\ call'.to = id
  BY <1>1, RefuseRecord, AtRecord DEF Places
<1>3. /\ messages' \in Seq(Messages) /\ Len(messages') <= UiQueue
  BY <1>1, PostSeen DEF Types, Queues, Messages
<1>4. /\ IsComing("detail")' => IsComing("detail")
      /\ IsComing("hardware")' => IsComing("hardware")
      /\ OnlyOne("detail") => OnlyOne("detail")'
      /\ OnlyOne("hardware") => OnlyOne("hardware")'
  BY <1>1, PostSeen, SameMessages DEF Messages
<1>5. Top' = Top /\ (IsOpen("detail")' <=> IsOpen("detail")) /\ (Bottom' <=> Bottom)
  BY <1>1, SameStack
<1>6. Types'
<2>1. Flags'
  BY <1>1 DEF Types, Flags
<2>2. Shapes'
  BY <1>1, <1>2 DEF Types, Shapes
<2>3. Numbers'
  BY <1>1, <1>2 DEF Types, Numbers
<2>4. Queues'
  BY <1>1, <1>3 DEF Types, Queues
<2>5. replies' \in Seq(Reply)
  BY <1>1 DEF Types
<2> QED
  BY <2>1, <2>2, <2>3, <2>4, <2>5 DEF Types
<1>7. ASSUME RequestInv, Orderly' PROVE RequestInv'
<2>1. Orderly /\ Core
  BY <1>1, <1>7 DEF RequestInv, Orderly
<2>2. IdInv'
  BY <1>1, <2>1 DEF Core, IdInv
<2>3. KindInv'
  BY <1>1, <2>1 DEF Core, KindInv
<2>4. CallInv'
  BY <1>1, <1>2, <1>5, <2>1 DEF Core, CallInv
<2>5. ComingInv'
  BY <1>1, <1>2, <1>4, <1>5, <2>1 DEF Core, ComingInv
<2>6. StackInv'
  BY <1>1, <1>4, <1>5, <2>1 DEF Core, StackInv
<2>7. ViewInv'
  BY <1>1, <1>2, <1>5, <2>1 DEF Core, ViewInv
<2>8. AnswerInv'
  BY <1>1, <2>1 DEF Core, AnswerInv
<2>10. AnsweredOnce'
  BY <1>1, <2>1 DEF Core, AnsweredOnce
<2>11. ResponseAlive'
  BY <1>1, <2>1 DEF Core, ResponseAlive
<2> QED
  BY <2>2, <2>3, <2>4, <2>5, <2>6, <2>7, <2>8, <2>10, <2>11 DEF RequestInv, Core
<1> QED
  BY <1>6, <1>7 DEF RequestInv

LEMMA SetDataStep ==
    ASSUME Types, SetData
    PROVE  Types' /\ (RequestInv => RequestInv')
<1>1. /\ call.at = "allowed" /\ urData' = call.req /\ call' = [call EXCEPT !.at = "set"]
      /\ UNCHANGED <<kinds, id, hardData, response, messages, stack, shown, confirmed,
                     checked, answer, replies, rude, dropped, twice, stray, early, dangling>>
  BY DEF SetData
<1>2. /\ call' \in CallShape /\ call'.at = "set" /\ call'.req = call.req /\ call'.to = call.to
  BY <1>1, AtRecord DEF Places
<1>3. /\ IsComing("detail")' <=> IsComing("detail")
      /\ IsComing("hardware")' <=> IsComing("hardware")
      /\ OnlyOne("detail")' <=> OnlyOne("detail")
      /\ OnlyOne("hardware")' <=> OnlyOne("hardware")
  BY <1>1, SameMessages
<1>4. Top' = Top /\ (IsOpen("detail")' <=> IsOpen("detail")) /\ (Bottom' <=> Bottom)
  BY <1>1, SameStack
<1>5. Types'
<2>1. Flags'
  BY <1>1 DEF Types, Flags
<2>2. Shapes'
  BY <1>1, <1>2 DEF Types, Shapes
<2>3. Numbers'
  BY <1>1 DEF Types, Numbers
<2>4. Queues'
  BY <1>1 DEF Types, Queues
<2>5. replies' \in Seq(Reply)
  BY <1>1 DEF Types
<2> QED
  BY <2>1, <2>2, <2>3, <2>4, <2>5 DEF Types
<1>6. ASSUME RequestInv, Orderly' PROVE RequestInv'
<2>1. Orderly /\ Core
  BY <1>1, <1>6 DEF RequestInv, Orderly
<2>2. IdInv'
  BY <1>1, <2>1 DEF Core, IdInv
<2>3. KindInv'
  BY <1>1, <2>1, Basics DEF Core, KindInv, CallInv, Idle, Freed, Types, Numbers
<2>4. CallInv'
  BY <1>1, <1>2, <1>4, <2>1 DEF Core, CallInv
<2>5. ComingInv'
  BY <1>1, <1>2, <1>3, <1>4, <2>1 DEF Core, ComingInv
<2>6. StackInv'
  BY <1>1, <1>3, <1>4, <2>1 DEF Core, StackInv
<2>7. ViewInv'
  BY <1>1, <1>2, <1>4, <2>1, Basics DEF Core, ViewInv, CallInv, Idle, Freed, Types, Numbers
<2>8. AnswerInv'
  BY <1>1, <2>1 DEF Core, AnswerInv
<2>10. AnsweredOnce'
  BY <1>1, <2>1 DEF Core, AnsweredOnce
<2>11. ResponseAlive'
  BY <1>1, <2>1 DEF Core, ResponseAlive
<2> QED
  BY <2>2, <2>3, <2>4, <2>5, <2>6, <2>7, <2>8, <2>10, <2>11 DEF RequestInv, Core
<1> QED
  BY <1>5, <1>6 DEF RequestInv

LEMMA CheckPassesStep ==
    ASSUME Types, CheckPasses
    PROVE  Types' /\ (RequestInv => RequestInv')
<1>1. /\ call.at = "set" /\ Post("detail") /\ call' = NoCall
      /\ UNCHANGED <<kinds, id, urData, hardData, response, stack, shown, confirmed,
                     checked, answer, replies, rude, dropped, twice, stray, early, dangling>>
  BY DEF CheckPasses
<1>2. /\ call' \in CallShape /\ call'.at = "idle" /\ call'.req = 0 /\ call'.to = 0
  BY <1>1, NoCallRecord
<1>3. /\ messages' \in Seq(Messages) /\ Len(messages') <= UiQueue
  BY <1>1, PostSeen DEF Types, Queues, Messages
<1>4. /\ IsComing("hardware")' => IsComing("hardware")
      /\ OnlyOne("hardware") => OnlyOne("hardware")'
      /\ OnlyOne("detail") /\ ~IsComing("detail") => OnlyOne("detail")'
  BY <1>1, PostSeen DEF Messages
<1>5. Top' = Top /\ (IsOpen("detail")' <=> IsOpen("detail")) /\ (Bottom' <=> Bottom)
  BY <1>1, SameStack
<1>6. Types'
<2>1. Flags'
  BY <1>1 DEF Types, Flags
<2>2. Shapes'
  BY <1>1, <1>2 DEF Types, Shapes
<2>3. Numbers'
  BY <1>1, <1>2 DEF Types, Numbers
<2>4. Queues'
  BY <1>1, <1>3 DEF Types, Queues
<2>5. replies' \in Seq(Reply)
  BY <1>1 DEF Types
<2> QED
  BY <2>1, <2>2, <2>3, <2>4, <2>5 DEF Types
<1>7. ASSUME RequestInv, Orderly' PROVE RequestInv'
<2>1. Orderly /\ Core
  BY <1>1, <1>7 DEF RequestInv, Orderly
<2>2. IdInv'
  BY <1>1, <2>1 DEF Core, IdInv
<2>3. KindInv'
  BY <1>1, <2>1 DEF Core, KindInv
<2>4. CallInv'
  BY <1>1, <1>2, <1>5, <2>1 DEF Core, CallInv
<2>5. ComingInv'
  BY <1>1, <1>2, <1>4, <1>5, <2>1, Basics
     DEF Core, ComingInv, CallInv, Idle, Freed, Types, Numbers
<2>6. StackInv'
  BY <1>1, <1>4, <1>5, <2>1 DEF Core, StackInv
<2>7. ViewInv'
  BY <1>1, <1>2, <1>5, <2>1 DEF Core, ViewInv
<2>8. AnswerInv'
  BY <1>1, <2>1 DEF Core, AnswerInv
<2>10. AnsweredOnce'
  BY <1>1, <2>1 DEF Core, AnsweredOnce
<2>11. ResponseAlive'
  BY <1>1, <2>1 DEF Core, ResponseAlive
<2> QED
  BY <2>2, <2>3, <2>4, <2>5, <2>6, <2>7, <2>8, <2>10, <2>11 DEF RequestInv, Core
<1> QED
  BY <1>6, <1>7 DEF RequestInv

LEMMA CheckFailsStep ==
    ASSUME Types, CheckFails
    PROVE  Types' /\ (RequestInv => RequestInv')
<1>1. /\ call.at = "set" /\ PostResult /\ Refuse(id, TRUE)
      /\ UNCHANGED <<kinds, id, urData, hardData, response, stack, shown, confirmed,
                     checked, answer, replies, rude, dropped, twice, stray, early, dangling>>
  BY DEF CheckFails
<1>2. /\ call' \in CallShape /\ call'.at = "refusing" /\ call'.req = call.req /\ call'.to = id
  BY <1>1, RefuseRecord
<1>3. /\ messages' \in Seq(Messages) /\ Len(messages') <= UiQueue
  BY <1>1, PostResultSeen DEF Types, Queues, Messages
<1>4. /\ IsComing("detail")' => IsComing("detail")
      /\ IsComing("hardware")' => IsComing("hardware")
      /\ OnlyOne("detail") => OnlyOne("detail")'
      /\ OnlyOne("hardware") => OnlyOne("hardware")'
  BY <1>1, PostResultSeen
<1>5. Top' = Top /\ (IsOpen("detail")' <=> IsOpen("detail")) /\ (Bottom' <=> Bottom)
  BY <1>1, SameStack
<1>6. Types'
<2>1. Flags'
  BY <1>1 DEF Types, Flags
<2>2. Shapes'
  BY <1>1, <1>2 DEF Types, Shapes
<2>3. Numbers'
  BY <1>1, <1>2 DEF Types, Numbers
<2>4. Queues'
  BY <1>1, <1>3 DEF Types, Queues
<2>5. replies' \in Seq(Reply)
  BY <1>1 DEF Types
<2> QED
  BY <2>1, <2>2, <2>3, <2>4, <2>5 DEF Types
<1>7. ASSUME RequestInv, Orderly' PROVE RequestInv'
<2>1. Orderly /\ Core
  BY <1>1, <1>7 DEF RequestInv, Orderly
<2>2. IdInv'
  BY <1>1, <2>1 DEF Core, IdInv
<2>3. KindInv'
  BY <1>1, <2>1 DEF Core, KindInv
<2>4. CallInv'
  BY <1>1, <1>2, <1>5, <2>1 DEF Core, CallInv
<2>5. ComingInv'
  BY <1>1, <1>2, <1>4, <1>5, <2>1 DEF Core, ComingInv
<2>6. StackInv'
  BY <1>1, <1>4, <1>5, <2>1 DEF Core, StackInv
<2>7. ViewInv'
  BY <1>1, <1>2, <1>5, <2>1 DEF Core, ViewInv
<2>8. AnswerInv'
  BY <1>1, <2>1 DEF Core, AnswerInv
<2>10. AnsweredOnce'
  BY <1>1, <2>1 DEF Core, AnsweredOnce
<2>11. ResponseAlive'
  BY <1>1, <2>1 DEF Core, ResponseAlive
<2> QED
  BY <2>2, <2>3, <2>4, <2>5, <2>6, <2>7, <2>8, <2>10, <2>11 DEF RequestInv, Core
<1> QED
  BY <1>6, <1>7 DEF RequestInv

(* A refusal carries no data, and the request it names, if any, is the
   pending one. *)
LEMMA RefusalSentStep ==
    ASSUME Types, RefusalSent
    PROVE  Types' /\ (RequestInv => RequestInv')
<1>1. /\ call.at = "refusing"
      /\ replies' = Append(replies, [to |-> call.to, for |-> call.req, data |-> 0, seen |-> 0])
      /\ PostResult \/ UNCHANGED messages
      /\ id' = 0 /\ call' = NoCall
      /\ UNCHANGED <<kinds, urData, hardData, response, stack, shown, confirmed,
                     checked, answer, rude, dropped, twice, stray, early, dangling>>
  BY DEF RefusalSent, Idle
<1>2. /\ call' \in CallShape /\ call'.at = "idle" /\ call'.req = 0 /\ call'.to = 0
  BY <1>1, NoCallRecord
<1>3. /\ messages' \in Seq(Messages) /\ Len(messages') <= UiQueue
  BY <1>1, PostResultSeen DEF Types, Queues, Messages
<1>4. /\ IsComing("detail")' => IsComing("detail")
      /\ IsComing("hardware")' => IsComing("hardware")
      /\ OnlyOne("detail") => OnlyOne("detail")'
      /\ OnlyOne("hardware") => OnlyOne("hardware")'
  BY <1>1, PostResultSeen
<1>5. Top' = Top /\ (IsOpen("detail")' <=> IsOpen("detail")) /\ (Bottom' <=> Bottom)
  BY <1>1, SameStack
<1>6. /\ replies' \in Seq(Reply) /\ Len(replies') = Len(replies) + 1 /\ DOMAIN replies' = 1..Len(replies) + 1
      /\ \A i \in 1..Len(replies) : replies'[i] = replies[i]
      /\ replies'[Len(replies) + 1].to = call.to /\ replies'[Len(replies) + 1].data = 0
<2>1. [to |-> call.to, for |-> call.req, data |-> 0, seen |-> 0] \in Reply
  BY DEF Types, Shapes, CallShape, Reply
<2>2. replies \in Seq(Reply) /\ Len(replies) \in Nat
  BY Basics DEF Types
<2> QED
  BY <1>1, <2>1, <2>2
<1>7. Types'
<2>1. Flags'
  BY <1>1 DEF Types, Flags
<2>2. Shapes'
  BY <1>1, <1>2 DEF Types, Shapes
<2>3. Numbers'
<3>1. Numbers /\ 0 \in 0..Len(kinds) /\ Len(replies) \in Nat /\ DOMAIN replies = 1..Len(replies)
  BY Basics DEF Types
<3>2. \A i \in DOMAIN replies' : i \in DOMAIN replies \/ i = Len(replies) + 1
  BY <1>6, <3>1
<3>3. \A i \in DOMAIN replies' : replies'[i].to \in 0..Len(kinds)
  BY <1>6, <3>1, <3>2 DEF Numbers
<3>4. UNCHANGED <<kinds, urData, hardData, response, shown, confirmed, answer>>
  BY <1>1
<3> QED
  BY <1>1, <1>2, <3>1, <3>3, <3>4 DEF Numbers
<2>4. Queues'
  BY <1>1, <1>3 DEF Types, Queues
<2>5. replies' \in Seq(Reply)
  BY <1>1, <1>6 DEF Types
<2> QED
  BY <2>1, <2>2, <2>3, <2>4, <2>5 DEF Types
<1>8. ASSUME RequestInv, Orderly' PROVE RequestInv'
<2>1. Orderly /\ Core
  BY <1>1, <1>8 DEF RequestInv, Orderly
<2>2. IdInv'
  BY <1>1, <1>6, <2>1 DEF Core, IdInv, Idle, Freed
<2>3. KindInv'
  BY <1>1, <2>1 DEF Core, KindInv
<2>4. CallInv'
  BY <1>1, <1>2, <1>5, <2>1 DEF Core, CallInv
<2>5. ComingInv'
  BY <1>1, <1>2, <1>4, <1>5, <2>1 DEF Core, ComingInv
<2>6. StackInv'
  BY <1>1, <1>4, <1>5, <2>1 DEF Core, StackInv
<2>7. ViewInv'
  BY <1>1, <1>2, <1>5, <2>1 DEF Core, ViewInv
<2>8. AnswerInv'
  BY <1>1, <2>1 DEF Core, AnswerInv
<2>10. AnsweredOnce'
  BY <2>1, <1>1, <1>2, <1>3, <1>4, <1>5, <1>6, Basics DEF Core, AnsweredOnce, Orderly, CallInv, IdInv, Idle
<2>11. ResponseAlive'
  BY <1>1, <2>1 DEF Core, ResponseAlive
<2> QED
  BY <2>2, <2>3, <2>4, <2>5, <2>6, <2>7, <2>8, <2>10, <2>11 DEF RequestInv, Core
<1> QED
  BY <1>7, <1>8 DEF RequestInv

-----------------------------------------------------------------------------
(* Steps of the UI task                                                     *)

(* A parse, and its result: only the view changes what it shows. *)
LEMMA ParsedStep ==
    ASSUME Types, ParseTypes, Parsed \/ ModelParseTransaction
    PROVE  Types' /\ (RequestInv => RequestInv')
<1>1. /\ shown' = shown \/ shown' \in 0..Len(kinds)
      /\ UNCHANGED <<kinds, id, call, urData, hardData, response, messages, stack, confirmed,
                     checked, answer, replies, rude, dropped, twice, stray, early, dangling>>
<2>1. CASE Parsed
  <3>1. parses # <<>> /\ Head(parses) # Asked => Head(parses) \in 0..Len(kinds)
    BY EmptySeq DEF ParseTypes
  <3> QED
    BY <2>1, <3>1 DEF Parsed
<2>2. CASE ModelParseTransaction
  BY <2>2 DEF ModelParseTransaction
<2> QED
  BY <2>1, <2>2
<1>2. /\ IsComing("detail")' <=> IsComing("detail")
      /\ IsComing("hardware")' <=> IsComing("hardware")
      /\ OnlyOne("detail")' <=> OnlyOne("detail")
      /\ OnlyOne("hardware")' <=> OnlyOne("hardware")
  BY <1>1, SameMessages
<1>3. Top' = Top /\ (IsOpen("detail")' <=> IsOpen("detail")) /\ (Bottom' <=> Bottom)
  BY <1>1, SameStack
<1>4. Types'
<2>1. Flags'
  BY <1>1 DEF Types, Flags
<2>2. Shapes'
  BY <1>1 DEF Types, Shapes
<2>3. Numbers'
  BY <1>1 DEF Types, Numbers
<2>4. Queues'
  BY <1>1 DEF Types, Queues
<2>5. replies' \in Seq(Reply)
  BY <1>1 DEF Types
<2> QED
  BY <2>1, <2>2, <2>3, <2>4, <2>5 DEF Types
<1>5. ASSUME RequestInv, Orderly' PROVE RequestInv'
<2>1. Orderly /\ Core
  BY <1>1, <1>5 DEF RequestInv, Orderly
<2>2. IdInv'
  BY <1>1, <2>1 DEF Core, IdInv
<2>3. KindInv'
  BY <1>1, <2>1 DEF Core, KindInv
<2>4. CallInv'
  BY <1>1, <1>3, <2>1 DEF Core, CallInv
<2>5. ComingInv'
  BY <1>1, <1>2, <1>3, <2>1 DEF Core, ComingInv
<2>6. StackInv'
  BY <1>1, <1>2, <1>3, <2>1 DEF Core, StackInv
<2>7. ViewInv'
  BY <1>1, <1>3, <2>1 DEF Core, ViewInv
<2>8. AnswerInv'
  BY <1>1, <1>2, <1>3, <2>1 DEF Core, AnswerInv
<2>10. AnsweredOnce'
  BY <1>1, <2>1 DEF Core, AnsweredOnce
<2>11. ResponseAlive'
  BY <1>1, <2>1 DEF Core, ResponseAlive
<2> QED
  BY <2>2, <2>3, <2>4, <2>5, <2>6, <2>7, <2>8, <2>10, <2>11 DEF RequestInv, Core
<1> QED
  BY <1>4, <1>5 DEF RequestInv

LEMMA ConfirmStep ==
    ASSUME Types, Confirm
    PROVE  Types' /\ (RequestInv => RequestInv')
<1>1. /\ shown # 0 /\ confirmed' = shown
      /\ UNCHANGED <<kinds, id, call, urData, hardData, response, messages, stack, shown,
                     checked, answer, replies, rude, dropped, twice, stray, early, dangling>>
  BY DEF Confirm, Freed
<1>2. /\ IsComing("detail")' <=> IsComing("detail")
      /\ IsComing("hardware")' <=> IsComing("hardware")
      /\ OnlyOne("detail")' <=> OnlyOne("detail")
      /\ OnlyOne("hardware")' <=> OnlyOne("hardware")
  BY <1>1, SameMessages
<1>3. Top' = Top /\ (IsOpen("detail")' <=> IsOpen("detail")) /\ (Bottom' <=> Bottom)
  BY <1>1, SameStack
<1>4. Types'
<2>1. Flags'
  BY <1>1 DEF Types, Flags
<2>2. Shapes'
  BY <1>1 DEF Types, Shapes
<2>3. Numbers'
  BY <1>1 DEF Types, Numbers
<2>4. Queues'
  BY <1>1 DEF Types, Queues
<2>5. replies' \in Seq(Reply)
  BY <1>1 DEF Types
<2> QED
  BY <2>1, <2>2, <2>3, <2>4, <2>5 DEF Types
<1>5. ASSUME RequestInv, Orderly' PROVE RequestInv'
<2>1. Orderly /\ Core
  BY <1>1, <1>5 DEF RequestInv, Orderly
<2>2. IdInv'
  BY <1>1, <2>1 DEF Core, IdInv
<2>3. KindInv'
  BY <1>1, <2>1 DEF Core, KindInv
<2>4. CallInv'
  BY <1>1, <1>3, <2>1 DEF Core, CallInv
<2>5. ComingInv'
  BY <1>1, <1>2, <1>3, <2>1 DEF Core, ComingInv
<2>6. StackInv'
  BY <1>1, <1>2, <1>3, <2>1 DEF Core, StackInv
<2>7. ViewInv'
  BY <1>1, <1>3, <2>1 DEF Core, ViewInv
<2>8. AnswerInv'
  BY <1>1, <1>2, <1>3, <2>1 DEF Core, AnswerInv
<2>10. AnsweredOnce'
  BY <1>1, <2>1 DEF Core, AnsweredOnce
<2>11. ResponseAlive'
  BY <1>1, <2>1 DEF Core, ResponseAlive
<2> QED
  BY <2>2, <2>3, <2>4, <2>5, <2>6, <2>7, <2>8, <2>10, <2>11 DEF RequestInv, Core
<1> QED
  BY <1>4, <1>5 DEF RequestInv

(* The password was given for the transaction of the pending request, or
   the answer goes astray. *)
LEMMA VerifyPassStep ==
    ASSUME Types, VerifyPass
    PROVE  Types' /\ (RequestInv => RequestInv')
<1>1. /\ ~answer.sending /\ Top = "detail" /\ confirmed # 0 /\ confirmed' = 0
      /\ \/ /\ id # 0 /\ UNCHANGED stack
            /\ Send([NoAnswer EXCEPT !.data = urData, !.seen = confirmed, !.page = TRUE], urData)
         \/ id = 0 /\ stack' = Append(stack, "qr") /\ UNCHANGED <<answer, stray>>
      /\ UNCHANGED <<kinds, id, call, urData, hardData, response, messages, shown,
                     checked, replies, rude, dropped, twice, early, dangling>>
  BY DEF VerifyPass, Idle, Freed
<1>2. /\ IsComing("detail")' <=> IsComing("detail")
      /\ IsComing("hardware")' <=> IsComing("hardware")
      /\ OnlyOne("detail")' <=> OnlyOne("detail")
      /\ OnlyOne("hardware")' <=> OnlyOne("hardware")
  BY <1>1, SameMessages
<1>3. /\ urData \in Nat /\ confirmed \in Nat /\ 0 \in Nat /\ TRUE \in BOOLEAN /\ answer \in AnswerShape
      /\ answer.to \in 0..Len(kinds) /\ answer.data \in 0..Len(kinds) /\ answer.seen \in 0..Len(kinds)
  BY Basics DEF Types, Numbers, Shapes
<1>4. /\ answer' \in AnswerShape
      /\ \/ /\ id # 0 /\ UNCHANGED stack /\ answer'.sending /\ answer'.to = id
            /\ answer'.data = urData /\ answer'.seen = confirmed /\ answer'.close = 0
            /\ (stray' <=> (stray \/ id # urData))
         \/ id = 0 /\ stack' = Append(stack, "qr") /\ UNCHANGED <<answer, stray>>
<2>1. CASE id # 0 /\ UNCHANGED stack
           /\ Send([NoAnswer EXCEPT !.data = urData, !.seen = confirmed, !.page = TRUE], urData)
  <3>1. Answers(urData, confirmed, TRUE, 0) /\ (stray' <=> (stray \/ id # urData))
    BY <2>1, <1>3, SendData
  <3> QED
    BY <2>1, <3>1, <1>3, AnswersRecord
<2>2. CASE id = 0 /\ stack' = Append(stack, "qr") /\ UNCHANGED <<answer, stray>>
  BY <2>2, <1>3
<2> QED
  BY <1>1, <2>1, <2>2
<1>5. /\ stack' \in Seq(Views) /\ stack' # <<>> /\ stack'[1] = "home"
      /\ Len(stack') \in Nat /\ Len(stack) <= Len(stack')
      /\ (UNCHANGED stack /\ Top' = Top) \/ Top' = "qr"
      /\ IsOpen("detail")' <=> IsOpen("detail")
      /\ Bottom => Bottom'
<2>1. CASE UNCHANGED stack
  BY <2>1, SameStack, Basics DEF Types, Queues
<2>2. CASE stack' = Append(stack, "qr")
  BY <2>2, QrSeen
<2> QED
  BY <1>1, <2>1, <2>2
<1>6. Types'
<2>1. Flags'
  BY <1>1 DEF Types, Flags
<2>2. Shapes'
  BY <1>1, <1>4 DEF Types, Shapes
<2>3. Numbers'
<3>1. answer'.to \in 0..Len(kinds) /\ answer'.data \in 0..Len(kinds) /\ answer'.seen \in 0..Len(kinds)
  BY <1>3, <1>4 DEF Types, Numbers
<3> QED
  BY <3>1, <1>1, Basics DEF Types, Numbers
<2>4. Queues'
  BY <1>1, <1>4, <1>5 DEF Types, Queues
<2>5. replies' \in Seq(Reply)
  BY <1>1 DEF Types
<2> QED
  BY <2>1, <2>2, <2>3, <2>4, <2>5 DEF Types
<1>7. ASSUME RequestInv, Orderly' PROVE RequestInv'
<2>1. Orderly /\ Core
  BY <1>1, <1>4, <1>7 DEF RequestInv, Orderly
<2>2. IdInv'
  BY <1>1, <2>1 DEF Core, IdInv
<2>3. KindInv'
  BY <1>1, <2>1 DEF Core, KindInv
<2>4. CallInv'
  BY <1>1, <2>1 DEF Core, CallInv
<2>5. ComingInv'
  BY <1>1, <1>2, <1>5, <2>1 DEF Core, ComingInv
<2>6. StackInv'
  BY <1>1, <1>2, <1>5, <2>1 DEF Core, StackInv
<2>7. ViewInv'
  BY <1>1, <1>5, <2>1 DEF Core, ViewInv, Idle, Freed
<2>8. AnswerInv'
<3>1. ASSUME answer'.sending PROVE id = urData /\ id # 0 /\ kinds[id] = "sign"
  BY <1>1, <1>4, <2>1, <3>1, <1>7 DEF Orderly, Core, KindInv, Freed
<3>2. ASSUME answer'.sending PROVE call.at = "idle" /\ ~IsComing("detail") /\ ~IsComing("hardware")
  <4>1. ~IsComing("detail") /\ ~IsComing("hardware")
    BY <1>1, <3>1, <3>2, <2>1 DEF Core, ComingInv
  <4>2. call.at \notin {"begun", "allowed", "set", "refusing"}
    BY <1>1, <3>1, <3>2, <2>1 DEF Core, CallInv, Idle
  <4> QED
    BY <4>1, <4>2 DEF Types, Shapes, CallShape, Places
<3>3. ASSUME answer'.sending
      PROVE  /\ id' = answer'.to /\ id' # 0 /\ call'.at = "idle"
             /\ Top' = "detail" /\ answer'.close = 0
  <4>1. answer'.to = id /\ answer'.close = 0 /\ UNCHANGED stack
    BY <1>1, <1>4, <3>3
  <4>2. Top' = "detail"
    BY <1>1, <4>1 DEF Top
  <4> QED
    BY <1>1, <3>1, <3>2, <3>3, <4>1, <4>2
<3> QED
  BY <1>2, <3>2, <3>3 DEF AnswerInv, Idle
<2>10. AnsweredOnce'
  BY <1>1, <2>1 DEF Core, AnsweredOnce
<2>11. ResponseAlive'
  BY <1>1, <2>1 DEF Core, ResponseAlive
<2> QED
  BY <2>2, <2>3, <2>4, <2>5, <2>6, <2>7, <2>8, <2>10, <2>11 DEF RequestInv, Core
<1> QED
  BY <1>6, <1>7 DEF RequestInv

LEMMA VerifyFailStep ==
    ASSUME Types, VerifyFail
    PROVE  Types' /\ (RequestInv => RequestInv')
<1>1. /\ ~answer.sending /\ Top = "detail" /\ confirmed # 0 /\ confirmed' = 0
      /\ UNCHANGED <<answer, stray>> \/ (id # 0 /\ Send(NoAnswer, urData))
      /\ UNCHANGED <<kinds, id, call, urData, hardData, response, messages, stack, shown,
                     checked, replies, rude, dropped, twice, early, dangling>>
  BY DEF VerifyFail, Idle, Freed
<1>2. /\ IsComing("detail")' <=> IsComing("detail")
      /\ IsComing("hardware")' <=> IsComing("hardware")
      /\ OnlyOne("detail")' <=> OnlyOne("detail")
      /\ OnlyOne("hardware")' <=> OnlyOne("hardware")
  BY <1>1, SameMessages
<1>3. Top' = Top /\ (IsOpen("detail")' <=> IsOpen("detail")) /\ (Bottom' <=> Bottom)
  BY <1>1, SameStack
<1>4. /\ 0 \in Nat /\ FALSE \in BOOLEAN /\ answer \in AnswerShape
      /\ answer.to \in 0..Len(kinds) /\ answer.data \in 0..Len(kinds) /\ answer.seen \in 0..Len(kinds)
  BY Basics DEF Types, Numbers, Shapes
<1>5. /\ answer' \in AnswerShape
      /\ \/ /\ id # 0 /\ answer'.sending /\ answer'.to = id
            /\ answer'.data = 0 /\ answer'.seen = 0 /\ answer'.close = 0
            /\ (stray' <=> (stray \/ id # urData))
         \/ UNCHANGED <<answer, stray>>
<2>1. CASE id # 0 /\ Send(NoAnswer, urData)
  BY <2>1, <1>4, SendNothing, AnswersRecord
<2>2. CASE UNCHANGED <<answer, stray>>
  BY <2>2, <1>4
<2> QED
  BY <1>1, <2>1, <2>2
<1>6. Types'
<2>1. Flags'
  BY <1>1 DEF Types, Flags
<2>2. Shapes'
  BY <1>1, <1>5 DEF Types, Shapes
<2>3. Numbers'
  BY <1>1, <1>5 DEF Types, Numbers
<2>4. Queues'
  BY <1>1, <1>5 DEF Types, Queues
<2>5. replies' \in Seq(Reply)
  BY <1>1 DEF Types
<2> QED
  BY <2>1, <2>2, <2>3, <2>4, <2>5 DEF Types
<1>7. ASSUME RequestInv, Orderly' PROVE RequestInv'
<2>1. Orderly /\ Core
  BY <1>1, <1>5, <1>7 DEF RequestInv, Orderly
<2>2. IdInv'
  BY <1>1, <2>1 DEF Core, IdInv
<2>3. KindInv'
  BY <1>1, <2>1 DEF Core, KindInv
<2>4. CallInv'
  BY <1>1, <2>1 DEF Core, CallInv
<2>5. ComingInv'
  BY <1>1, <1>2, <1>3, <2>1 DEF Core, ComingInv
<2>6. StackInv'
  BY <1>1, <1>2, <1>3, <2>1 DEF Core, StackInv
<2>7. ViewInv'
  BY <1>1, <1>3, <2>1 DEF Core, ViewInv, Idle, Freed
<2>8. AnswerInv'
<3>1. ASSUME answer'.sending PROVE id = urData /\ id # 0 /\ kinds[id] = "sign"
  BY <1>1, <1>5, <2>1, <3>1, <1>7 DEF Orderly, Core, KindInv, Freed
<3>2. ASSUME answer'.sending PROVE call.at = "idle" /\ ~IsComing("detail") /\ ~IsComing("hardware")
  <4>1. ~IsComing("detail") /\ ~IsComing("hardware")
    BY <1>1, <3>1, <3>2, <2>1 DEF Core, ComingInv
  <4>2. call.at \notin {"begun", "allowed", "set", "refusing"}
    BY <1>1, <3>1, <3>2, <2>1 DEF Core, CallInv, Idle
  <4> QED
    BY <4>1, <4>2 DEF Types, Shapes, CallShape, Places
<3> QED
  BY <3>1, <3>2, <1>1, <1>2, <1>3, <1>4, <1>5, <2>1 DEF Core, ViewInv, AnswerInv, Idle, Freed
<2>10. AnsweredOnce'
  BY <1>1, <2>1 DEF Core, AnsweredOnce
<2>11. ResponseAlive'
  BY <1>1, <2>1 DEF Core, ResponseAlive
<2> QED
  BY <2>2, <2>3, <2>4, <2>5, <2>6, <2>7, <2>8, <2>10, <2>11 DEF RequestInv, Core
<1> QED
  BY <1>6, <1>7 DEF RequestInv

LEMMA ApproveHardwareStep ==
    ASSUME Types, ApproveHardware
    PROVE  Types' /\ (RequestInv => RequestInv')
<1>1. /\ ~answer.sending /\ Top = "hardware" /\ ~checked /\ checked' = TRUE
      /\ dangling' \in BOOLEAN /\ (dangling' <=> dangling \/ response = 0)
      /\ Send([NoAnswer EXCEPT !.data = response, !.seen = response], hardData)
      /\ UNCHANGED <<kinds, id, call, urData, hardData, response, messages, stack, shown,
                     confirmed, replies, rude, dropped, twice, early>>
  BY DEF ApproveHardware, Freed
<1>2. /\ IsComing("detail")' <=> IsComing("detail")
      /\ IsComing("hardware")' <=> IsComing("hardware")
      /\ OnlyOne("detail")' <=> OnlyOne("detail")
      /\ OnlyOne("hardware")' <=> OnlyOne("hardware")
  BY <1>1, SameMessages
<1>3. Top' = Top /\ (IsOpen("detail")' <=> IsOpen("detail")) /\ (Bottom' <=> Bottom)
  BY <1>1, SameStack
<1>4. /\ answer' \in AnswerShape /\ answer'.sending /\ answer'.to = id
      /\ answer'.data = response /\ answer'.seen = response /\ answer'.close = 0
      /\ (stray' <=> (stray \/ id # hardData))
<2>1. response \in Nat /\ 0 \in Nat /\ FALSE \in BOOLEAN
  BY Basics DEF Types, Numbers
<2>2. Answers(response, response, FALSE, 0) /\ (stray' <=> (stray \/ id # hardData))
  BY <1>1, SendDataOnly
<2> QED
  BY <2>1, <2>2, AnswersRecord
<1>5. Types'
<2>1. Flags'
  BY <1>1 DEF Types, Flags
<2>2. Shapes'
  BY <1>1, <1>4 DEF Types, Shapes
<2>3. Numbers'
  BY <1>1, <1>4 DEF Types, Numbers
<2>4. Queues'
  BY <1>1, <1>4 DEF Types, Queues
<2>5. replies' \in Seq(Reply)
  BY <1>1 DEF Types
<2> QED
  BY <2>1, <2>2, <2>3, <2>4, <2>5 DEF Types
<1>6. ASSUME RequestInv, Orderly' PROVE RequestInv'
<2>1. Orderly /\ Core
  BY <1>1, <1>4, <1>6 DEF RequestInv, Orderly
<2>2. IdInv'
  BY <1>1, <2>1 DEF Core, IdInv
<2>3. KindInv'
  BY <1>1, <2>1 DEF Core, KindInv
<2>4. CallInv'
  BY <1>1, <1>3, <2>1 DEF Core, CallInv
<2>5. ComingInv'
  BY <1>1, <1>2, <1>3, <2>1 DEF Core, ComingInv
<2>6. StackInv'
  BY <1>1, <1>2, <1>3, <2>1 DEF Core, StackInv
<2>7. ViewInv'
  BY <1>1, <1>3, <2>1 DEF Core, ViewInv
<2>8. AnswerInv'
  BY <1>1, <1>2, <1>3, <1>4, <2>1, <1>6, Basics
     DEF Core, IdInv, KindInv, CallInv, ComingInv, StackInv, ViewInv, AnswerInv, Orderly,
         Idle, Freed, Types, Numbers, Flags
<2>10. AnsweredOnce'
  BY <1>1, <2>1 DEF Core, AnsweredOnce
<2>11. ResponseAlive'
  BY <1>1, <2>1, Basics DEF Core, ResponseAlive, ViewInv, Idle, Freed, Types, Numbers
<2> QED
  BY <2>2, <2>3, <2>4, <2>5, <2>6, <2>7, <2>8, <2>10, <2>11 DEF RequestInv, Core
<1> QED
  BY <1>5, <1>6 DEF RequestInv

LEMMA RejectHardwareStep ==
    ASSUME Types, RejectHardware
    PROVE  Types' /\ (RequestInv => RequestInv')
<1>1. /\ ~answer.sending /\ Top = "hardware" /\ ~checked
      /\ Send([NoAnswer EXCEPT !.close = Len(stack) - 1], hardData)
      /\ UNCHANGED <<kinds, id, call, urData, hardData, response, messages, stack, shown,
                     checked, confirmed, replies, rude, dropped, twice, early, dangling>>
  BY DEF RejectHardware
<1>2. /\ IsComing("detail")' <=> IsComing("detail")
      /\ IsComing("hardware")' <=> IsComing("hardware")
      /\ OnlyOne("detail")' <=> OnlyOne("detail")
      /\ OnlyOne("hardware")' <=> OnlyOne("hardware")
  BY <1>1, SameMessages
<1>3. Top' = Top /\ (IsOpen("detail")' <=> IsOpen("detail")) /\ (Bottom' <=> Bottom)
  BY <1>1, SameStack
<1>4. Len(stack) - 1 \in Nat /\ Len(stack) \in Nat
  BY Basics
<1>5. /\ answer' \in AnswerShape /\ answer'.sending /\ answer'.to = id
      /\ answer'.data = 0 /\ answer'.seen = 0 /\ answer'.close = Len(stack) - 1
      /\ (stray' <=> (stray \/ id # hardData))
  BY <1>1, <1>4, SendNothing, AnswersRecord
<1>6. Types'
<2>1. Flags'
  BY <1>1 DEF Types, Flags
<2>2. Shapes'
  BY <1>1, <1>5 DEF Types, Shapes
<2>3. Numbers'
  BY <1>1, <1>5 DEF Types, Numbers
<2>4. Queues'
  BY <1>1, <1>5 DEF Types, Queues
<2>5. replies' \in Seq(Reply)
  BY <1>1 DEF Types
<2> QED
  BY <2>1, <2>2, <2>3, <2>4, <2>5 DEF Types
<1>7. ASSUME RequestInv, Orderly' PROVE RequestInv'
<2>1. Orderly /\ Core
  BY <1>1, <1>5, <1>7 DEF RequestInv, Orderly
<2>2. IdInv'
  BY <1>1, <2>1 DEF Core, IdInv
<2>3. KindInv'
  BY <1>1, <2>1 DEF Core, KindInv
<2>4. CallInv'
  BY <1>1, <1>3, <2>1 DEF Core, CallInv
<2>5. ComingInv'
  BY <1>1, <1>2, <1>3, <2>1 DEF Core, ComingInv
<2>6. StackInv'
  BY <1>1, <1>2, <1>3, <2>1 DEF Core, StackInv
<2>7. ViewInv'
  BY <1>1, <1>3, <2>1 DEF Core, ViewInv
<2>8. AnswerInv'
  BY <1>1, <1>2, <1>3, <1>5, <2>1, <1>7, Basics
     DEF Core, IdInv, KindInv, CallInv, ComingInv, StackInv, ViewInv, AnswerInv, Orderly,
         Idle, Freed, Types, Numbers, Flags
<2>10. AnsweredOnce'
  BY <1>1, <2>1 DEF Core, AnsweredOnce
<2>11. ResponseAlive'
  BY <1>1, <2>1 DEF Core, ResponseAlive
<2> QED
  BY <2>2, <2>3, <2>4, <2>5, <2>6, <2>7, <2>8, <2>10, <2>11 DEF RequestInv, Core
<1> QED
  BY <1>6, <1>7 DEF RequestInv

LEMMA HandleResultStep ==
    ASSUME Types, HandleResult
    PROVE  Types' /\ (RequestInv => RequestInv')
<1>1. /\ IsMessage("result") /\ Open("transport")
      /\ UNCHANGED <<kinds, id, call, urData, hardData, response, shown,
                     checked, confirmed, answer, replies, rude, dropped, stray, early, dangling>>
  BY DEF HandleResult
<1>2. /\ ~answer.sending /\ messages' \in Seq(Messages) /\ Len(messages') <= UiQueue
  BY <1>1, TailType DEF Types, Queues
<1>3. /\ IsComing("detail")' => IsComing("detail")
      /\ IsComing("hardware")' => IsComing("hardware")
      /\ OnlyOne("detail") => OnlyOne("detail")'
      /\ OnlyOne("hardware") => OnlyOne("hardware")'
  BY <1>1, TailComing
<1>4. /\ stack' \in Seq(Views) /\ stack' # <<>> /\ stack'[1] = "home"
      /\ Len(stack') \in Nat /\ Len(stack) <= Len(stack') /\ twice' \subseteq Views
      /\ Top' = Top \/ Top' = "transport"
      /\ IsOpen("detail")' <=> IsOpen("detail")
      /\ Bottom => Bottom'
  BY <1>1, OpenSeen DEF Views
<1>5. Types'
<2>1. Flags'
  BY <1>1 DEF Types, Flags
<2>2. Shapes'
  BY <1>1 DEF Types, Shapes
<2>3. Numbers'
  BY <1>1 DEF Types, Numbers
<2>4. Queues'
  BY <1>1, <1>2, <1>4 DEF Types, Queues
<2>5. replies' \in Seq(Reply)
  BY <1>1 DEF Types
<2> QED
  BY <2>1, <2>2, <2>3, <2>4, <2>5 DEF Types
<1>6. ASSUME RequestInv, Orderly' PROVE RequestInv'
<2>1. Orderly /\ Core
  BY <1>1, <1>6 DEF RequestInv, Orderly
<2>2. IdInv'
  BY <1>1, <2>1 DEF Core, IdInv
<2>3. KindInv'
  BY <1>1, <2>1 DEF Core, KindInv
<2>4. CallInv'
  BY <1>1, <1>4, <2>1 DEF Core, CallInv
<2>5. ComingInv'
  BY <1>1, <1>3, <1>4, <2>1 DEF Core, ComingInv
<2>6. StackInv'
  BY <1>1, <1>3, <1>4, <2>1 DEF Core, StackInv
<2>7. ViewInv'
  BY <1>1, <1>4, <2>1 DEF Core, ViewInv
<2>8. AnswerInv'
  BY <1>1, <2>1 DEF Core, AnswerInv
<2>10. AnsweredOnce'
  BY <1>1, <2>1 DEF Core, AnsweredOnce
<2>11. ResponseAlive'
  BY <1>1, <2>1 DEF Core, ResponseAlive
<2> QED
  BY <2>2, <2>3, <2>4, <2>5, <2>6, <2>7, <2>8, <2>10, <2>11 DEF RequestInv, Core
<1> QED
  BY <1>5, <1>6 DEF RequestInv

LEMMA HandleDetailStep ==
    ASSUME Types, HandleDetail
    PROVE  Types' /\ (RequestInv => RequestInv')
<1>1. /\ IsMessage("detail") /\ Open("detail")
      /\ shown' = 0 /\ confirmed' = 0
      /\ UNCHANGED <<kinds, id, call, urData, hardData, response,
                     checked, answer, replies, rude, dropped, stray, early, dangling>>
  BY DEF HandleDetail, Freed
<1>2. /\ ~answer.sending /\ messages' \in Seq(Messages) /\ Len(messages') <= UiQueue
  BY <1>1, TailType DEF Types, Queues
<1>3. /\ IsComing("detail")' => IsComing("detail")
      /\ IsComing("hardware")' => IsComing("hardware")
      /\ OnlyOne("detail") => OnlyOne("detail")'
      /\ OnlyOne("hardware") => OnlyOne("hardware")'
      /\ IsComing("detail") /\ (OnlyOne("detail") => ~IsComing("detail")')
  BY <1>1, TailComing
<1>4. /\ stack' \in Seq(Views) /\ stack' # <<>> /\ stack'[1] = "home"
      /\ Len(stack') \in Nat /\ Len(stack) <= Len(stack') /\ twice' \subseteq Views
      /\ \/ IsOpen("detail") /\ stack' = stack /\ Top' = Top
         \/ Top' = "detail"
      /\ Bottom => Bottom'
  BY <1>1, OpenSeen DEF Views
<1>5. Types'
<2>1. Flags'
  BY <1>1 DEF Types, Flags
<2>2. Shapes'
  BY <1>1 DEF Types, Shapes
<2>3. Numbers'
  BY <1>1 DEF Types, Numbers
<2>4. Queues'
  BY <1>1, <1>2, <1>4 DEF Types, Queues
<2>5. replies' \in Seq(Reply)
  BY <1>1 DEF Types
<2> QED
  BY <2>1, <2>2, <2>3, <2>4, <2>5 DEF Types
<1>6. ASSUME RequestInv, Orderly' PROVE RequestInv'
<2>1. Orderly /\ Core
  BY <1>1, <1>6 DEF RequestInv, Orderly
<2>2. IdInv'
  BY <1>1, <2>1 DEF Core, IdInv
<2>3. KindInv'
  BY <1>1, <2>1 DEF Core, KindInv
<2>4. CallInv'
  BY <1>1, <1>2, <1>3, <1>4, <2>1, Basics
     DEF Core, CallInv, ComingInv, Idle, Freed, Types, Numbers
<2>5. ComingInv'
  BY <1>1, <1>3, <1>4, <2>1 DEF Core, ComingInv
<2>6. StackInv'
  BY <1>1, <1>3, <1>4, <2>1, Basics
     DEF Core, StackInv, ComingInv, KindInv, Idle, Freed, Types, Numbers
<2>7. ViewInv'
  BY <1>1, <1>4, <2>1 DEF Core, ViewInv, Idle, Freed
<2>8. AnswerInv'
  BY <1>1, <2>1 DEF Core, AnswerInv
<2>10. AnsweredOnce'
  BY <1>1, <2>1 DEF Core, AnsweredOnce
<2>11. ResponseAlive'
  BY <1>1, <2>1 DEF Core, ResponseAlive
<2> QED
  BY <2>2, <2>3, <2>4, <2>5, <2>6, <2>7, <2>8, <2>10, <2>11 DEF RequestInv, Core
<1> QED
  BY <1>5, <1>6 DEF RequestInv

(* The view opens for, or approves, the request whose message is taken. *)
LEMMA HandleHardwareStep ==
    ASSUME Types, HandleHardware
    PROVE  Types' /\ (RequestInv => RequestInv')
<1>1. /\ IsMessage("hardware")
      /\ \/ /\ Top = "hardware" /\ checked /\ response' = hardData /\ UNCHANGED <<stack, checked, twice>>
            /\ Send([NoAnswer EXCEPT !.data = response', !.seen = response'], hardData)
         \/ Top = "hardware" /\ ~checked /\ UNCHANGED <<response, answer, stack, checked, twice, stray>>
         \/ /\ Top # "hardware" /\ Open("hardware") /\ response' = hardData /\ checked' = FALSE
            /\ UNCHANGED <<answer, stray>>
      /\ dangling' \in BOOLEAN
      /\ (dangling' <=> dangling \/ (response' = 0 /\ (checked \/ Top # "hardware")))
      /\ UNCHANGED <<kinds, id, call, urData, hardData, shown, confirmed,
                     replies, rude, dropped, early>>
  BY DEF HandleHardware, Reparsed, Freed, Types, Flags
<1>2. /\ ~answer.sending /\ messages' \in Seq(Messages) /\ Len(messages') <= UiQueue
  BY <1>1, TailType DEF Types, Queues
<1>3. /\ IsComing("detail")' => IsComing("detail")
      /\ IsComing("hardware")' => IsComing("hardware")
      /\ OnlyOne("detail") => OnlyOne("detail")'
      /\ OnlyOne("hardware") => OnlyOne("hardware")'
      /\ IsComing("hardware") /\ (OnlyOne("hardware") => ~IsComing("hardware")')
  BY <1>1, TailComing
<1>4. /\ stack' \in Seq(Views) /\ stack' # <<>> /\ stack'[1] = "home"
      /\ Len(stack') \in Nat /\ Len(stack) <= Len(stack') /\ twice' \subseteq Views
      /\ \/ UNCHANGED <<stack, checked>> /\ Top' = Top
         \/ IsOpen("hardware") /\ stack' = stack /\ Top' = Top /\ Top # "hardware"
         \/ Top' = "hardware" /\ Top # "hardware" /\ checked' = FALSE
      /\ IsOpen("detail")' <=> IsOpen("detail")
      /\ Bottom => Bottom'
      /\ checked' \in BOOLEAN /\ response' \in {response, hardData}
<2>1. CASE UNCHANGED <<stack, checked, twice>> /\ response' \in {response, hardData}
  BY <2>1, SameStack, Basics DEF Types, Queues, Flags
<2>2. CASE Top # "hardware" /\ Open("hardware") /\ response' = hardData /\ checked' = FALSE
  BY <2>2, OpenSeen DEF Views
<2> QED
  BY <1>1, <2>1, <2>2
<1>5. /\ hardData \in Nat /\ 0 \in Nat /\ FALSE \in BOOLEAN /\ answer \in AnswerShape
      /\ answer.to \in 0..Len(kinds) /\ answer.data \in 0..Len(kinds) /\ answer.seen \in 0..Len(kinds)
  BY Basics DEF Types, Numbers, Shapes
<1>6. /\ answer' \in AnswerShape
      /\ \/ /\ Top = "hardware" /\ checked /\ response' = hardData /\ UNCHANGED <<stack, checked>>
            /\ answer'.sending /\ answer'.to = id /\ answer'.data = hardData
            /\ answer'.seen = hardData /\ answer'.close = 0
            /\ (stray' <=> (stray \/ id # hardData))
         \/ /\ (Top = "hardware" /\ ~checked) \/ (Top # "hardware" /\ response' = hardData)
            /\ UNCHANGED <<answer, stray>>
<2>1. CASE /\ Top = "hardware" /\ checked /\ response' = hardData /\ UNCHANGED <<stack, checked, twice>>
           /\ Send([NoAnswer EXCEPT !.data = response', !.seen = response'], hardData)
  <3>1. Answers(hardData, hardData, FALSE, 0) /\ (stray' <=> (stray \/ id # hardData))
    BY <2>1, SendDataOnly
  <3> QED
    BY <2>1, <3>1, <1>5, AnswersRecord
<2> QED
  BY <1>1, <2>1, <1>5
<1>7. Types'
<2>1. Flags'
  BY <1>1 DEF Types, Flags
<2>2. Shapes'
  BY <1>1, <1>6 DEF Types, Shapes
<2>3. Numbers'
  BY <1>1, <1>4, <1>6 DEF Types, Numbers
<2>4. Queues'
  BY <1>1, <1>2, <1>4, <1>6 DEF Types, Queues
<2>5. replies' \in Seq(Reply)
  BY <1>1 DEF Types
<2> QED
  BY <2>1, <2>2, <2>3, <2>4, <2>5 DEF Types
<1>8. ASSUME RequestInv, Orderly' PROVE RequestInv'
<2>1. Orderly /\ Core
  BY <1>1, <1>6, <1>8 DEF RequestInv, Orderly
<2>2. IdInv'
  BY <1>1, <2>1 DEF Core, IdInv
<2>3. KindInv'
  BY <1>1, <2>1 DEF Core, KindInv
<2>4. CallInv'
  BY <1>1, <1>4, <2>1 DEF Core, CallInv
<2>5. ComingInv'
  BY <1>1, <1>3, <1>4, <2>1 DEF Core, ComingInv
<2>6. StackInv'
  BY <1>1, <1>3, <1>4, <2>1 DEF Core, StackInv
<2>7. ViewInv'
  BY <1>1, <1>2, <1>3, <1>4, <1>5, <1>6, <2>1, Basics
     DEF Core, ViewInv, ComingInv, Idle, Freed, Types, Numbers
<2>8. AnswerInv'
  BY <1>1, <1>3, <1>4, <1>6, <2>1, <1>8, Basics
     DEF Core, IdInv, KindInv, CallInv, ComingInv, StackInv, ViewInv, AnswerInv, Orderly,
         Idle, Freed, Types, Numbers, Flags
<2>10. AnsweredOnce'
  BY <1>1, <2>1 DEF Core, AnsweredOnce
<2>11. ResponseAlive'
  BY <1>1, <1>2, <1>3, <1>4, <1>5, <1>6, <2>1, Basics
     DEF Core, ResponseAlive, ComingInv, Idle, Freed, Types, Numbers
<2> QED
  BY <2>2, <2>3, <2>4, <2>5, <2>6, <2>7, <2>8, <2>10, <2>11 DEF RequestInv, Core
<1> QED
  BY <1>7, <1>8 DEF RequestInv

LEMMA HandleNextStep ==
    ASSUME Types, HandleNext
    PROVE  Types' /\ (RequestInv => RequestInv')
<1>1. /\ IsMessage("next")
      /\ CloseAbove(IF Top = "transport" THEN 1 ELSE Len(stack))
      /\ UNCHANGED <<kinds, id, call, checked, answer, replies,
                     rude, dropped, stray, twice, dangling>>
  BY DEF HandleNext
<1>2. /\ ~answer.sending /\ messages' \in Seq(Messages) /\ Len(messages') <= UiQueue
  BY <1>1, TailType DEF Types, Queues
<1>3. /\ IsComing("detail")' => IsComing("detail")
      /\ IsComing("hardware")' => IsComing("hardware")
      /\ OnlyOne("detail") => OnlyOne("detail")'
      /\ OnlyOne("hardware") => OnlyOne("hardware")'
  BY <1>1, TailComing
<1>4. (IF Top = "transport" THEN 1 ELSE Len(stack)) \in 1..Len(stack)
  BY <1>1, Basics DEF Types, Queues
<1>5. /\ stack' \in Seq(Views) /\ stack' # <<>> /\ stack'[1] = "home"
      /\ Len(stack') \in Nat /\ early' \in BOOLEAN /\ urData' \in {urData, 0}
      /\ \/ UNCHANGED <<hardData, response, early>>
         \/ hardData' = 0 /\ response' = 0 /\ (early' <=> early \/ IsComing("hardware"))
      /\ UNCHANGED <<shown, confirmed>> \/ (shown' = 0 /\ confirmed' = 0)
      /\ IsOpen("detail")' => IsOpen("detail")
      /\ Bottom => Bottom'
      /\ (IF Top = "transport" THEN 1 ELSE Len(stack)) = 1 => Top' = "home"
      /\ (IF Top = "transport" THEN 1 ELSE Len(stack)) = Len(stack) => Top' = Top
      /\ (IF Top = "transport" THEN 1 ELSE Len(stack)) = Len(stack) => UNCHANGED <<hardData, response, early>>
      /\ Bottom /\ Top = "hardware" /\ (IF Top = "transport" THEN 1 ELSE Len(stack)) # Len(stack) => Top' # "hardware"
      /\ Top' # Top => IsOpen(Top')
  BY <1>1, <1>4, CloseSeen
<1>6. Types'
<2>1. Flags'
  BY <1>1, <1>5 DEF Types, Flags
<2>2. Shapes'
  BY <1>1 DEF Types, Shapes
<2>3. Numbers'
<3>1. /\ urData' \in 0..Len(kinds) /\ hardData' \in 0..Len(kinds) /\ response' \in 0..Len(kinds)
      /\ shown' \in 0..Len(kinds) /\ confirmed' \in 0..Len(kinds)
  BY <1>1, <1>5, ClosedNumbers
<3> QED
  BY <3>1, <1>1, <1>1, Basics DEF Types, Numbers
<2>4. Queues'
  BY <1>1, <1>2, <1>5 DEF Types, Queues
<2>5. replies' \in Seq(Reply)
  BY <1>1 DEF Types
<2> QED
  BY <2>1, <2>2, <2>3, <2>4, <2>5 DEF Types
<1>7. ASSUME RequestInv, Orderly' PROVE RequestInv'
<2>1. Orderly /\ Core
  BY <1>1, <1>7 DEF RequestInv, Orderly
<2>2. IdInv'
  BY <1>1, <2>1 DEF Core, IdInv
<2>3. KindInv'
  BY <1>1, <1>5, <2>1 DEF Core, KindInv, Idle, Freed
<2>4. CallInv'
  BY <1>1, <1>5, <2>1 DEF Core, CallInv, Idle, Freed
<2>5. ComingInv'
  BY <1>1, <1>3, <1>5, <2>1 DEF Core, ComingInv
<2>6. StackInv'
  BY <1>1, <1>3, <1>5, <2>1 DEF Core, StackInv
<2>7. ViewInv'
  BY <1>1, <1>5, <2>1 DEF Core, ViewInv, Idle, Freed
<2>8. AnswerInv'
  BY <1>1, <2>1 DEF Core, AnswerInv
<2>10. AnsweredOnce'
  BY <1>1, <2>1 DEF Core, AnsweredOnce
<2>11. ResponseAlive'
  BY <1>1, <1>5, <2>1 DEF Core, ResponseAlive
<2> QED
  BY <2>2, <2>3, <2>4, <2>5, <2>6, <2>7, <2>8, <2>10, <2>11 DEF RequestInv, Core
<1> QED
  BY <1>6, <1>7 DEF RequestInv

LEMMA RejectStep ==
    ASSUME Types, Reject
    PROVE  Types' /\ (RequestInv => RequestInv')
<1>1. /\ ~answer.sending /\ Top = "detail" /\ confirmed = 0
      /\ \/ /\ id # 0 /\ Send([NoAnswer EXCEPT !.close = 1], urData)
            /\ UNCHANGED <<dataVars, stack, shown, confirmed, early>>
         \/ CloseAbove(1) /\ UNCHANGED <<answer, stray>>
      /\ UNCHANGED <<kinds, id, call, messages, checked, replies,
                     rude, dropped, twice, dangling>>
  BY DEF Reject, Idle, Freed
<1>2. /\ IsComing("detail")' <=> IsComing("detail")
      /\ IsComing("hardware")' <=> IsComing("hardware")
      /\ OnlyOne("detail")' <=> OnlyOne("detail")
      /\ OnlyOne("hardware")' <=> OnlyOne("hardware")
  BY <1>1, SameMessages
<1>3. /\ 0 \in Nat /\ 1 \in Nat /\ FALSE \in BOOLEAN /\ answer \in AnswerShape
      /\ answer.to \in 0..Len(kinds) /\ answer.data \in 0..Len(kinds) /\ answer.seen \in 0..Len(kinds)
      /\ 1 \in 1..Len(stack) /\ Len(stack) \in Nat
  BY Basics DEF Types, Numbers, Shapes
<1>4. /\ answer' \in AnswerShape
      /\ \/ /\ id # 0 /\ answer'.sending /\ answer'.to = id
            /\ answer'.data = 0 /\ answer'.seen = 0 /\ answer'.close = 1 /\ stack' = stack
            /\ (stray' <=> (stray \/ id # urData))
         \/ UNCHANGED <<answer, stray>>
<2>1. CASE id # 0 /\ Send([NoAnswer EXCEPT !.close = 1], urData) /\ stack' = stack
  BY <2>1, <1>3, SendNothing, AnswersRecord
<2>2. CASE UNCHANGED <<answer, stray>>
  BY <2>2, <1>3
<2> QED
  BY <1>1, <2>1, <2>2
<1>5. /\ stack' \in Seq(Views) /\ stack' # <<>> /\ stack'[1] = "home"
      /\ Len(stack') \in Nat /\ early' \in BOOLEAN /\ urData' \in {urData, 0}
      /\ \/ UNCHANGED <<hardData, response, early>>
         \/ hardData' = 0 /\ response' = 0 /\ (early' <=> early \/ IsComing("hardware"))
      /\ UNCHANGED <<shown, confirmed>> \/ (shown' = 0 /\ confirmed' = 0)
      /\ IsOpen("detail")' => IsOpen("detail")
      /\ Bottom => Bottom'
      /\ (UNCHANGED stack /\ Top' = Top) \/ Top' = "home"
<2>1. CASE UNCHANGED <<dataVars, stack, shown, confirmed, early>>
  BY <2>1, SameStack, Basics DEF Types, Queues, Flags
<2>2. CASE CloseAbove(1)
  BY <2>2, <1>3, CloseSeen
<2> QED
  BY <1>1, <2>1, <2>2
<1>6. Types'
<2>1. Flags'
  BY <1>1, <1>5 DEF Types, Flags
<2>2. Shapes'
  BY <1>1, <1>4 DEF Types, Shapes
<2>3. Numbers'
<3>1. /\ urData' \in 0..Len(kinds) /\ hardData' \in 0..Len(kinds) /\ response' \in 0..Len(kinds)
      /\ shown' \in 0..Len(kinds) /\ confirmed' \in 0..Len(kinds)
  BY <1>1, <1>5, ClosedNumbers
<3> QED
  BY <3>1, <1>1, <1>4, Basics DEF Types, Numbers
<2>4. Queues'
  BY <1>1, <1>4, <1>5 DEF Types, Queues
<2>5. replies' \in Seq(Reply)
  BY <1>1 DEF Types
<2> QED
  BY <2>1, <2>2, <2>3, <2>4, <2>5 DEF Types
<1>7. ASSUME RequestInv, Orderly' PROVE RequestInv'
<2>1. Orderly /\ Core
  BY <1>1, <1>4, <1>7 DEF RequestInv, Orderly
<2>2. IdInv'
  BY <1>1, <2>1 DEF Core, IdInv
<2>3. KindInv'
  BY <1>1, <1>5, <2>1 DEF Core, KindInv, Idle, Freed
<2>4. CallInv'
  BY <1>1, <1>5, <2>1 DEF Core, CallInv, Idle, Freed
<2>5. ComingInv'
  BY <1>1, <1>2, <1>5, <2>1 DEF Core, ComingInv
<2>6. StackInv'
  BY <1>1, <1>2, <1>5, <2>1 DEF Core, StackInv
<2>7. ViewInv'
  BY <1>1, <1>5, <2>1 DEF Core, ViewInv
<2>8. AnswerInv'
<3>1. ASSUME answer'.sending PROVE id = urData /\ id # 0 /\ kinds[id] = "sign"
  BY <1>1, <1>4, <2>1, <3>1, <1>7 DEF Orderly, Core, KindInv, Freed
<3>2. ASSUME answer'.sending PROVE call.at = "idle" /\ ~IsComing("detail") /\ ~IsComing("hardware")
  <4>1. ~IsComing("detail") /\ ~IsComing("hardware")
    BY <1>1, <3>1, <3>2, <2>1 DEF Core, ComingInv
  <4>2. call.at \notin {"begun", "allowed", "set", "refusing"}
    BY <1>1, <3>1, <3>2, <2>1 DEF Core, CallInv, Idle
  <4> QED
    BY <4>1, <4>2 DEF Types, Shapes, CallShape, Places
<3>3. ASSUME answer'.sending
      PROVE  /\ id' = answer'.to /\ id' # 0 /\ call'.at = "idle"
             /\ Top' = "detail" /\ answer'.close = 1
  <4>1. answer'.to = id /\ answer'.close = 1 /\ stack' = stack
    BY <1>1, <1>4, <3>3
  <4>2. Top' = "detail"
    BY <1>1, <4>1 DEF Top
  <4> QED
    BY <1>1, <3>1, <3>2, <3>3, <4>1, <4>2
<3> QED
  BY <1>2, <3>2, <3>3 DEF AnswerInv, Idle
<2>10. AnsweredOnce'
  BY <1>1, <2>1 DEF Core, AnsweredOnce
<2>11. ResponseAlive'
  BY <1>1, <1>5, <2>1 DEF Core, ResponseAlive
<2> QED
  BY <2>2, <2>3, <2>4, <2>5, <2>6, <2>7, <2>8, <2>10, <2>11 DEF RequestInv, Core
<1> QED
  BY <1>6, <1>7 DEF RequestInv

(* Closing the connection view frees its request; the message of one that
   has just arrived finds nothing then (early). *)
LEMMA CloseHardwareStep ==
    ASSUME Types, CloseHardware
    PROVE  Types' /\ (RequestInv => RequestInv')
<1>1. /\ ~answer.sending /\ Top = "hardware" /\ checked
      /\ CloseAbove(Len(stack) - 1)
      /\ dropped' = dropped \cup ({id} \ {0})
      /\ UNCHANGED <<kinds, id, call, messages, checked, answer, replies,
                     rude, stray, twice, dangling>>
  BY DEF CloseHardware, Idle
<1>2. /\ IsComing("detail")' <=> IsComing("detail")
      /\ IsComing("hardware")' <=> IsComing("hardware")
      /\ OnlyOne("detail")' <=> OnlyOne("detail")
      /\ OnlyOne("hardware")' <=> OnlyOne("hardware")
  BY <1>1, SameMessages
<1>3. dropped' \subseteq Requests
  BY <1>1, DroppedType
<1>4. Len(stack) - 1 \in 1..Len(stack) /\ Len(stack) - 1 # Len(stack)
  BY <1>1, TopBelow
<1>5. /\ stack' \in Seq(Views) /\ stack' # <<>> /\ stack'[1] = "home"
      /\ Len(stack') \in Nat /\ early' \in BOOLEAN /\ urData' \in {urData, 0}
      /\ \/ UNCHANGED <<hardData, response, early>>
         \/ hardData' = 0 /\ response' = 0 /\ (early' <=> early \/ IsComing("hardware"))
      /\ UNCHANGED <<shown, confirmed>> \/ (shown' = 0 /\ confirmed' = 0)
      /\ IsOpen("detail")' => IsOpen("detail")
      /\ Bottom => Bottom'
      /\ (Len(stack) - 1) = 1 => Top' = "home"
      /\ (Len(stack) - 1) = Len(stack) => Top' = Top
      /\ (Len(stack) - 1) = Len(stack) => UNCHANGED <<hardData, response, early>>
      /\ Bottom /\ Top = "hardware" /\ (Len(stack) - 1) # Len(stack) => Top' # "hardware"
      /\ Top' # Top => IsOpen(Top')
  BY <1>1, <1>4, CloseSeen
<1>6. Types'
<2>1. Flags'
  BY <1>1, <1>5 DEF Types, Flags
<2>2. Shapes'
  BY <1>1 DEF Types, Shapes
<2>3. Numbers'
<3>1. /\ urData' \in 0..Len(kinds) /\ hardData' \in 0..Len(kinds) /\ response' \in 0..Len(kinds)
      /\ shown' \in 0..Len(kinds) /\ confirmed' \in 0..Len(kinds)
  BY <1>1, <1>5, ClosedNumbers
<3> QED
  BY <3>1, <1>1, <1>1, Basics DEF Types, Numbers
<2>4. Queues'
  BY <1>1, <1>3, <1>5 DEF Types, Queues
<2>5. replies' \in Seq(Reply)
  BY <1>1 DEF Types
<2> QED
  BY <2>1, <2>2, <2>3, <2>4, <2>5 DEF Types
<1>7. ASSUME RequestInv, Orderly' PROVE RequestInv'
<2>1. Orderly /\ Core
  BY <1>1, <1>7 DEF RequestInv, Orderly
<2>2. IdInv'
  BY <1>1, <2>1 DEF Core, IdInv
<2>3. KindInv'
  BY <1>1, <1>5, <2>1 DEF Core, KindInv, Idle, Freed
<2>4. CallInv'
  BY <1>1, <1>5, <2>1, Basics
     DEF Core, CallInv, ComingInv, StackInv, Idle, Freed, Types, Numbers
<2>5. ComingInv'
  BY <1>1, <1>2, <1>5, <2>1, Basics DEF Core, ComingInv, StackInv, Idle, Freed, Types, Numbers
<2>6. StackInv'
  BY <1>1, <1>2, <1>5, <2>1 DEF Core, StackInv
<2>7. ViewInv'
  BY <1>1, <1>5, <2>1, Basics
     DEF Core, ViewInv, ComingInv, StackInv, Idle, Freed, Types, Numbers
<2>8. AnswerInv'
  BY <1>1, <2>1 DEF Core, AnswerInv
<2>10. AnsweredOnce'
  BY <1>1, <2>1 DEF Core, AnsweredOnce
<2>11. ResponseAlive'
  BY <1>1, <1>5, <2>1 DEF Core, ResponseAlive
<2> QED
  BY <2>2, <2>3, <2>4, <2>5, <2>6, <2>7, <2>8, <2>10, <2>11 DEF RequestInv, Core
<1> QED
  BY <1>6, <1>7 DEF RequestInv

LEMMA GoHomeStep ==
    ASSUME Types, GoHome
    PROVE  Types' /\ (RequestInv => RequestInv')
<1>1. /\ ~answer.sending /\ CloseAbove(1)
      /\ UNCHANGED <<kinds, id, call, messages, checked, answer, replies,
                     rude, dropped, stray, twice, dangling>>
  BY DEF GoHome
<1>2. /\ IsComing("detail")' <=> IsComing("detail")
      /\ IsComing("hardware")' <=> IsComing("hardware")
      /\ OnlyOne("detail")' <=> OnlyOne("detail")
      /\ OnlyOne("hardware")' <=> OnlyOne("hardware")
  BY <1>1, SameMessages
<1>3. (1) \in 1..Len(stack)
  BY <1>1, Basics DEF Types, Queues
<1>4. /\ stack' \in Seq(Views) /\ stack' # <<>> /\ stack'[1] = "home"
      /\ Len(stack') \in Nat /\ early' \in BOOLEAN /\ urData' \in {urData, 0}
      /\ \/ UNCHANGED <<hardData, response, early>>
         \/ hardData' = 0 /\ response' = 0 /\ (early' <=> early \/ IsComing("hardware"))
      /\ UNCHANGED <<shown, confirmed>> \/ (shown' = 0 /\ confirmed' = 0)
      /\ IsOpen("detail")' => IsOpen("detail")
      /\ Bottom => Bottom'
      /\ 1 = 1 => Top' = "home"
      /\ 1 = Len(stack) => Top' = Top
      /\ 1 = Len(stack) => UNCHANGED <<hardData, response, early>>
      /\ Bottom /\ Top = "hardware" /\ 1 # Len(stack) => Top' # "hardware"
      /\ Top' # Top => IsOpen(Top')
  BY <1>1, <1>3, CloseSeen
<1>5. Types'
<2>1. Flags'
  BY <1>1, <1>4 DEF Types, Flags
<2>2. Shapes'
  BY <1>1 DEF Types, Shapes
<2>3. Numbers'
<3>1. /\ urData' \in 0..Len(kinds) /\ hardData' \in 0..Len(kinds) /\ response' \in 0..Len(kinds)
      /\ shown' \in 0..Len(kinds) /\ confirmed' \in 0..Len(kinds)
  BY <1>1, <1>4, ClosedNumbers
<3> QED
  BY <3>1, <1>1, <1>1, Basics DEF Types, Numbers
<2>4. Queues'
  BY <1>1, <1>4 DEF Types, Queues
<2>5. replies' \in Seq(Reply)
  BY <1>1 DEF Types
<2> QED
  BY <2>1, <2>2, <2>3, <2>4, <2>5 DEF Types
<1>6. ASSUME RequestInv, Orderly' PROVE RequestInv'
<2>1. Orderly /\ Core
  BY <1>1, <1>6 DEF RequestInv, Orderly
<2>2. IdInv'
  BY <1>1, <2>1 DEF Core, IdInv
<2>3. KindInv'
  BY <1>1, <1>4, <2>1 DEF Core, KindInv, Idle, Freed
<2>4. CallInv'
  BY <1>1, <1>4, <2>1 DEF Core, CallInv, Idle, Freed
<2>5. ComingInv'
  BY <1>1, <1>2, <1>4, <2>1 DEF Core, ComingInv
<2>6. StackInv'
  BY <1>1, <1>2, <1>4, <2>1 DEF Core, StackInv
<2>7. ViewInv'
  BY <1>1, <1>4, <2>1 DEF Core, ViewInv
<2>8. AnswerInv'
  BY <1>1, <2>1 DEF Core, AnswerInv
<2>10. AnsweredOnce'
  BY <1>1, <2>1 DEF Core, AnsweredOnce
<2>11. ResponseAlive'
  BY <1>1, <1>4, <2>1 DEF Core, ResponseAlive
<2> QED
  BY <2>2, <2>3, <2>4, <2>5, <2>6, <2>7, <2>8, <2>10, <2>11 DEF RequestInv, Core
<1> QED
  BY <1>5, <1>6 DEF RequestInv

LEMMA OtherWalletStep ==
    ASSUME Types, OtherWallet
    PROVE  Types' /\ (RequestInv => RequestInv')
<1>1. /\ ~answer.sending /\ CloseAbove(1)
      /\ dropped' = dropped \cup ({id} \ {0})
      /\ UNCHANGED <<kinds, id, call, messages, checked, answer, replies,
                     rude, twice, stray, dangling>>
  BY DEF OtherWallet, Idle
<1>2. /\ IsComing("detail")' <=> IsComing("detail")
      /\ IsComing("hardware")' <=> IsComing("hardware")
      /\ OnlyOne("detail")' <=> OnlyOne("detail")
      /\ OnlyOne("hardware")' <=> OnlyOne("hardware")
  BY <1>1, SameMessages
<1>3. dropped' \subseteq Requests
  BY <1>1, DroppedType
<1>4. (1) \in 1..Len(stack)
  BY <1>1, Basics DEF Types, Queues
<1>5. /\ stack' \in Seq(Views) /\ stack' # <<>> /\ stack'[1] = "home"
      /\ Len(stack') \in Nat /\ early' \in BOOLEAN /\ urData' \in {urData, 0}
      /\ \/ UNCHANGED <<hardData, response, early>>
         \/ hardData' = 0 /\ response' = 0 /\ (early' <=> early \/ IsComing("hardware"))
      /\ UNCHANGED <<shown, confirmed>> \/ (shown' = 0 /\ confirmed' = 0)
      /\ IsOpen("detail")' => IsOpen("detail")
      /\ Bottom => Bottom'
      /\ 1 = 1 => Top' = "home"
      /\ 1 = Len(stack) => Top' = Top
      /\ 1 = Len(stack) => UNCHANGED <<hardData, response, early>>
      /\ Bottom /\ Top = "hardware" /\ 1 # Len(stack) => Top' # "hardware"
      /\ Top' # Top => IsOpen(Top')
  BY <1>1, <1>4, CloseSeen
<1>6. Types'
<2>1. Flags'
  BY <1>1, <1>5 DEF Types, Flags
<2>2. Shapes'
  BY <1>1 DEF Types, Shapes
<2>3. Numbers'
<3>1. /\ urData' \in 0..Len(kinds) /\ hardData' \in 0..Len(kinds) /\ response' \in 0..Len(kinds)
      /\ shown' \in 0..Len(kinds) /\ confirmed' \in 0..Len(kinds)
  BY <1>1, <1>5, ClosedNumbers
<3> QED
  BY <3>1, <1>1, <1>1, Basics DEF Types, Numbers
<2>4. Queues'
  BY <1>1, <1>3, <1>5 DEF Types, Queues
<2>5. replies' \in Seq(Reply)
  BY <1>1 DEF Types
<2> QED
  BY <2>1, <2>2, <2>3, <2>4, <2>5 DEF Types
<1>7. ASSUME RequestInv, Orderly' PROVE RequestInv'
<2>1. Orderly /\ Core
  BY <1>1, <1>7 DEF RequestInv, Orderly
<2>2. IdInv'
  BY <1>1, <2>1 DEF Core, IdInv
<2>3. KindInv'
  BY <1>1, <1>5, <2>1 DEF Core, KindInv, Idle, Freed
<2>4. CallInv'
  BY <1>1, <1>5, <2>1 DEF Core, CallInv, Idle, Freed
<2>5. ComingInv'
  BY <1>1, <1>2, <1>5, <2>1 DEF Core, ComingInv
<2>6. StackInv'
  BY <1>1, <1>2, <1>5, <2>1 DEF Core, StackInv
<2>7. ViewInv'
  BY <1>1, <1>5, <2>1 DEF Core, ViewInv
<2>8. AnswerInv'
  BY <1>1, <2>1 DEF Core, AnswerInv
<2>10. AnsweredOnce'
  BY <1>1, <2>1 DEF Core, AnsweredOnce
<2>11. ResponseAlive'
  BY <1>1, <1>5, <2>1 DEF Core, ResponseAlive
<2> QED
  BY <2>2, <2>3, <2>4, <2>5, <2>6, <2>7, <2>8, <2>10, <2>11 DEF RequestInv, Core
<1> QED
  BY <1>6, <1>7 DEF RequestInv

(* The cable is pulled when the tasks have caught up: nothing is on its
   way. *)
LEMMA ReplugStep ==
    ASSUME Types, Replug
    PROVE  Types' /\ (RequestInv => RequestInv')
<1>1. /\ ~answer.sending /\ call.at = "idle" /\ messages = <<>>
      /\ CloseAbove(IF Top \in {"detail", "hardware"} THEN 1 ELSE Len(stack))
      /\ id # 0 /\ id' = 0 /\ dropped' = dropped \cup {id}
      /\ UNCHANGED <<kinds, call, messages, checked, answer, replies,
                     rude, twice, stray, dangling>>
  BY DEF Replug, Idle
<1>2. /\ IsComing("detail")' <=> IsComing("detail")
      /\ IsComing("hardware")' <=> IsComing("hardware")
      /\ OnlyOne("detail")' <=> OnlyOne("detail")
      /\ OnlyOne("hardware")' <=> OnlyOne("hardware")
  BY <1>1, SameMessages
<1>3. ~IsComing("detail") /\ ~IsComing("hardware")
  BY <1>1, EmptySeq DEF IsComing
<1>4. dropped' \subseteq Requests
  BY <1>1, DroppedType
<1>5. (IF Top \in {"detail", "hardware"} THEN 1 ELSE Len(stack)) \in 1..Len(stack)
  BY <1>1, Basics DEF Types, Queues
<1>6. /\ stack' \in Seq(Views) /\ stack' # <<>> /\ stack'[1] = "home"
      /\ Len(stack') \in Nat /\ early' \in BOOLEAN /\ urData' \in {urData, 0}
      /\ \/ UNCHANGED <<hardData, response, early>>
         \/ hardData' = 0 /\ response' = 0 /\ (early' <=> early \/ IsComing("hardware"))
      /\ UNCHANGED <<shown, confirmed>> \/ (shown' = 0 /\ confirmed' = 0)
      /\ IsOpen("detail")' => IsOpen("detail")
      /\ Bottom => Bottom'
      /\ (IF Top \in {"detail", "hardware"} THEN 1 ELSE Len(stack)) = 1 => Top' = "home"
      /\ (IF Top \in {"detail", "hardware"} THEN 1 ELSE Len(stack)) = Len(stack) => Top' = Top
      /\ (IF Top \in {"detail", "hardware"} THEN 1 ELSE Len(stack)) = Len(stack) => UNCHANGED <<hardData, response, early>>
      /\ Bottom /\ Top = "hardware" /\ (IF Top \in {"detail", "hardware"} THEN 1 ELSE Len(stack)) # Len(stack) => Top' # "hardware"
      /\ Top' # Top => IsOpen(Top')
  BY <1>1, <1>5, CloseSeen
<1>7. Types'
<2>1. Flags'
  BY <1>1, <1>6 DEF Types, Flags
<2>2. Shapes'
  BY <1>1 DEF Types, Shapes
<2>3. Numbers'
<3>1. /\ urData' \in 0..Len(kinds) /\ hardData' \in 0..Len(kinds) /\ response' \in 0..Len(kinds)
      /\ shown' \in 0..Len(kinds) /\ confirmed' \in 0..Len(kinds)
  BY <1>1, <1>6, ClosedNumbers
<3> QED
  BY <3>1, <1>1, <1>1, Basics DEF Types, Numbers
<2>4. Queues'
  BY <1>1, <1>4, <1>6 DEF Types, Queues
<2>5. replies' \in Seq(Reply)
  BY <1>1 DEF Types
<2> QED
  BY <2>1, <2>2, <2>3, <2>4, <2>5 DEF Types
<1>8. ASSUME RequestInv, Orderly' PROVE RequestInv'
<2>1. Orderly /\ Core
  BY <1>1, <1>8 DEF RequestInv, Orderly
<2>2. IdInv'
  BY <1>1, <2>1 DEF Core, IdInv, Idle, Freed
<2>3. KindInv'
  BY <1>1, <1>6, <2>1 DEF Core, KindInv, Idle, Freed
<2>4. CallInv'
  BY <1>1, <2>1 DEF Core, CallInv
<2>5. ComingInv'
  BY <1>1, <1>2, <1>3, <1>6, <2>1 DEF Core, ComingInv
<2>6. StackInv'
  BY <1>1, <1>2, <1>3, <1>6, <2>1 DEF Core, StackInv
<2>7. ViewInv'
  BY <1>1, <1>6, <2>1 DEF Core, ViewInv
<2>8. AnswerInv'
  BY <1>1, <2>1 DEF Core, AnswerInv
<2>10. AnsweredOnce'
  BY <1>1, <2>1 DEF Core, AnsweredOnce
<2>11. ResponseAlive'
  BY <1>1, <1>6, <2>1 DEF Core, ResponseAlive
<2> QED
  BY <2>2, <2>3, <2>4, <2>5, <2>6, <2>7, <2>8, <2>10, <2>11 DEF RequestInv, Core
<1> QED
  BY <1>7, <1>8 DEF RequestInv

(* The answer names the pending request, which nobody has answered. *)
LEMMA AnswerSentStep ==
    ASSUME Types, AnswerSent
    PROVE  Types' /\ (RequestInv => RequestInv')
<1>1. /\ answer.sending
      /\ replies' = IF answer.to = Idle THEN replies
                    ELSE Append(replies, [to |-> answer.to, for |-> answer.to,
                                          data |-> answer.data, seen |-> answer.seen])
      /\ id' = 0 /\ answer' = NoAnswer
      /\ PostResult \/ UNCHANGED messages
      /\ CloseAbove(IF answer.close = 0 THEN Len(stack) ELSE answer.close)
      /\ UNCHANGED <<kinds, call, checked, rude, dropped, stray, twice, dangling>>
  BY DEF AnswerSent, AfterAnswer, Idle
<1>2. /\ answer' \in AnswerShape /\ ~answer'.sending /\ answer'.to = 0 /\ answer'.data = 0
      /\ answer'.seen = 0
  BY <1>1 DEF NoAnswer, AnswerShape, Idle
<1>3. /\ messages' \in Seq(Messages) /\ Len(messages') <= UiQueue
  BY <1>1, PostResultSeen DEF Types, Queues, Messages
<1>4. /\ IsComing("detail")' => IsComing("detail")
      /\ IsComing("hardware")' => IsComing("hardware")
      /\ OnlyOne("detail") => OnlyOne("detail")'
      /\ OnlyOne("hardware") => OnlyOne("hardware")'
  BY <1>1, PostResultSeen
<1>5. /\ replies' \in Seq(Reply) /\ Len(replies') \in Nat /\ DOMAIN replies' = 1..Len(replies')
      /\ \A i \in 1..Len(replies) : replies'[i] = replies[i]
      /\ \/ replies' = replies
         \/ /\ Len(replies') = Len(replies) + 1 /\ answer.to # 0
            /\ replies'[Len(replies) + 1].to = answer.to
            /\ replies'[Len(replies) + 1].data = answer.data
            /\ replies'[Len(replies) + 1].seen = answer.seen
<2>1. replies \in Seq(Reply) /\ Len(replies) \in Nat /\ DOMAIN replies = 1..Len(replies)
  BY Basics DEF Types
<2>2. CASE replies' = replies
  BY <2>1, <2>2
<2>3. CASE /\ answer.to # 0
           /\ replies' = Append(replies, [to |-> answer.to, for |-> answer.to,
                                          data |-> answer.data, seen |-> answer.seen])
  <3>1. PICK e \in Reply : /\ replies' = Append(replies, e) /\ e.to = answer.to
                            /\ e.data = answer.data /\ e.seen = answer.seen
    BY <2>3 DEF Types, Shapes, AnswerShape, Reply
  <3> QED
    BY <2>1, <2>3, <3>1, ReplyAppended, LenProperties
<2> QED
  BY <1>1, <2>2, <2>3 DEF Idle
<1>6. (IF answer.close = 0 THEN Len(stack) ELSE answer.close) \in 1..Len(stack)
  BY <1>1, Basics DEF Types, Queues
<1>7. /\ stack' \in Seq(Views) /\ stack' # <<>> /\ stack'[1] = "home"
      /\ Len(stack') \in Nat /\ early' \in BOOLEAN /\ urData' \in {urData, 0}
      /\ \/ UNCHANGED <<hardData, response, early>>
         \/ hardData' = 0 /\ response' = 0 /\ (early' <=> early \/ IsComing("hardware"))
      /\ UNCHANGED <<shown, confirmed>> \/ (shown' = 0 /\ confirmed' = 0)
      /\ IsOpen("detail")' => IsOpen("detail")
      /\ Bottom => Bottom'
      /\ (IF answer.close = 0 THEN Len(stack) ELSE answer.close) = 1 => Top' = "home"
      /\ (IF answer.close = 0 THEN Len(stack) ELSE answer.close) = Len(stack) => Top' = Top
      /\ (IF answer.close = 0 THEN Len(stack) ELSE answer.close) = Len(stack) => UNCHANGED <<hardData, response, early>>
      /\ Bottom /\ Top = "hardware" /\ (IF answer.close = 0 THEN Len(stack) ELSE answer.close) # Len(stack) => Top' # "hardware"
      /\ Top' # Top => IsOpen(Top')
  BY <1>1, <1>6, CloseSeen
<1>8. Types'
<2>1. Flags'
  BY <1>1, <1>7 DEF Types, Flags
<2>2. Shapes'
  BY <1>1, <1>2 DEF Types, Shapes
<2>3. Numbers'
<3>1. \A i \in DOMAIN replies' : replies'[i].to \in 0..Len(kinds')
  BY <1>1, <1>5, Basics DEF Types, Numbers
<3>2. /\ urData' \in 0..Len(kinds) /\ hardData' \in 0..Len(kinds) /\ response' \in 0..Len(kinds)
      /\ shown' \in 0..Len(kinds) /\ confirmed' \in 0..Len(kinds)
  BY <1>1, <1>7, ClosedNumbers
<3>3. Numbers /\ 0 \in 0..Len(kinds)
  BY Basics DEF Types
<3>4. UNCHANGED <<kinds, call>> /\ id' = 0
  BY <1>1
<3> QED
  BY <1>2, <3>1, <3>2, <3>3, <3>4 DEF Numbers
<2>4. Queues'
  BY <1>1, <1>2, <1>3, <1>7 DEF Types, Queues
<2>5. replies' \in Seq(Reply)
  BY <1>1, <1>5 DEF Types
<2> QED
  BY <2>1, <2>2, <2>3, <2>4, <2>5 DEF Types
<1>9. ASSUME RequestInv, Orderly' PROVE RequestInv'
<2>1. Orderly /\ Core
  BY <1>1, <1>9 DEF RequestInv, Orderly
<2>2. IdInv'
  BY <1>1, <1>5, <2>1 DEF Core, IdInv, Idle, Freed
<2>3. KindInv'
  BY <1>1, <1>7, <2>1 DEF Core, KindInv, Idle, Freed
<2>4. CallInv'
  BY <1>1, <1>7, <2>1, <1>9, Basics
     DEF Core, IdInv, KindInv, CallInv, ComingInv, StackInv, ViewInv, AnswerInv, Orderly,
         Idle, Freed, Types, Numbers, Flags
<2>5. ComingInv'
  BY <1>1, <1>4, <1>7, <2>1, <1>9, Basics
     DEF Core, IdInv, KindInv, CallInv, ComingInv, StackInv, ViewInv, AnswerInv, Orderly,
         Idle, Freed, Types, Numbers, Flags
<2>6. StackInv'
  BY <1>1, <1>4, <1>7, <2>1, <1>9, Basics
     DEF Core, IdInv, KindInv, CallInv, ComingInv, StackInv, ViewInv, AnswerInv, Orderly,
         Idle, Freed, Types, Numbers, Flags
<2>7. ViewInv'
<3>1. \/ Top = "detail" /\ answer.close \in {0, 1}
      \/ Top = "hardware" /\ answer.close = (IF checked THEN 0 ELSE Len(stack) - 1)
  BY <1>1, <2>1 DEF Core, AnswerInv
<3>2. CASE Top = "detail" /\ answer.close \in {0, 1}
  <4>1. Top' \in {"detail", "home"}
    BY <1>1, <1>7, <3>2
  <4> QED
    BY <1>1, <4>1 DEF ViewInv
<3>3. CASE Top = "hardware" /\ answer.close = (IF checked THEN 0 ELSE Len(stack) - 1)
  <4>1. checked \/ Top' # "hardware"
    <5>1. Len(stack) - 1 \in 1..Len(stack) /\ Len(stack) - 1 # Len(stack) /\ Len(stack) - 1 # 0
      BY <3>3, TopBelow
    <5> QED
      BY <1>1, <1>7, <2>1, <3>3, <5>1 DEF Core, StackInv
  <4> QED
    BY <1>1, <4>1 DEF ViewInv
<3> QED
  BY <3>1, <3>2, <3>3
<2>8. AnswerInv'
  BY <1>1, <1>2, <1>4, <1>7, <2>1 DEF Core, AnswerInv
<2>10. AnsweredOnce'
<3>1. answer.to # 0 => \A i \in 1..Len(replies) : replies[i].to # answer.to
  BY <1>1, <2>1, Basics DEF Core, AnswerInv, IdInv, Idle
<3>2. \A i, j \in 1..Len(replies) : replies[i].to = replies[j].to /\ replies[i].to # 0 => i = j
  BY <2>1, Basics DEF Core, AnsweredOnce, Idle
<3>3. Len(replies) \in Nat
  BY Basics
<3>4. CASE replies' = replies
  BY <3>2, <3>4, Basics DEF AnsweredOnce, Idle
<3>5. CASE Len(replies') = Len(replies) + 1 /\ replies'[Len(replies) + 1].to = answer.to /\ answer.to # 0
  <4> SUFFICES ASSUME NEW i \in 1..Len(replies) + 1, NEW j \in 1..Len(replies) + 1,
                      replies'[i].to = replies'[j].to, replies'[i].to # 0
               PROVE  i = j
    BY <1>5, <3>5 DEF AnsweredOnce, Idle
  <4>1. CASE i \in 1..Len(replies) /\ j \in 1..Len(replies)
    BY <4>1, <1>5, <3>2
  <4>2. CASE i = Len(replies) + 1 /\ j \in 1..Len(replies)
    BY <4>2, <1>5, <3>1, <3>5
  <4>3. CASE j = Len(replies) + 1 /\ i \in 1..Len(replies)
    BY <4>3, <1>5, <3>1, <3>5
  <4> QED
    BY <3>3, <4>1, <4>2, <4>3
<3> QED
  BY <1>5, <3>4, <3>5
<2>11. ResponseAlive'
  BY <1>1, <1>7, <2>1 DEF Core, ResponseAlive
<2> QED
  BY <2>2, <2>3, <2>4, <2>5, <2>6, <2>7, <2>8, <2>10, <2>11 DEF RequestInv, Core
<1> QED
  BY <1>8, <1>9 DEF RequestInv

-----------------------------------------------------------------------------
(* What is parsed, shown and signed                                         *)

LEMMA OrderlyBefore ==
    ASSUME Types, [Next]_vars, Orderly'
    PROVE  Orderly
<1>1. CASE \E kind \in Kinds : Receive(kind)
<2>1. stray' = stray /\ (rude' = (rude \/ id # Idle))
  BY <1>1 DEF Receive
<2> QED
  BY <2>1, Zenon DEF Orderly
<1>2. CASE DataParser
<2>1. UNCHANGED <<rude, stray>>
  BY <1>2 DEF DataParser, ParseFails, HandleHardwareCall, HandleNormalCall, ViewTypeUnsupported,
     SetData, CheckPasses, CheckFails, RefusalSent
<2> QED
  BY <2>1 DEF Orderly
<1>3. CASE HandleMessage
<2>1. UNCHANGED rude /\ (UNCHANGED stray \/ stray' = (stray \/ id # hardData))
  <3>1. CASE HandleResult \/ HandleNext \/ HandleDetail
    BY <3>1 DEF HandleResult, HandleNext, HandleDetail
  <3>2. CASE HandleHardware
    BY <3>2, Zenon DEF HandleHardware, Send
  <3> QED
    BY <1>3, <3>1, <3>2 DEF HandleMessage
<2>2. ~rude' /\ ~stray'
  BY DEF Orderly
<2>3. ~rude
  BY <2>1, <2>2
<2>4. ~stray
  BY <2>1, <2>2, Zenon
<2> QED
  BY <2>3, <2>4 DEF Orderly
<1>4. CASE Decision
<2>1. UNCHANGED rude /\ \/ UNCHANGED stray
                        \/ stray' = (stray \/ id # hardData) \/ stray' = (stray \/ id # urData)
  <3>1. CASE Confirm \/ CloseHardware
    BY <3>1 DEF Confirm, CloseHardware
  <3>2. CASE VerifyPass \/ VerifyFail \/ Reject
    BY <3>2, Zenon DEF VerifyPass, VerifyFail, Reject, Send
  <3>3. CASE ApproveHardware \/ RejectHardware
    BY <3>3, Zenon DEF ApproveHardware, RejectHardware, Send
  <3> QED
    BY <1>4, <3>1, <3>2, <3>3 DEF Decision
<2>2. ~rude' /\ ~stray'
  BY DEF Orderly
<2>3. ~rude
  BY <2>1, <2>2
<2>4. ~stray
  BY <2>1, <2>2, Zenon
<2> QED
  BY <2>3, <2>4 DEF Orderly
<1>5. CASE ModelParseTransaction \/ Parsed \/ AnswerSent \/ GoHome \/ OtherWallet \/ Replug
<2>1. UNCHANGED <<rude, stray>>
  BY <1>5 DEF ModelParseTransaction, Parsed, AnswerSent, GoHome, OtherWallet, Replug
<2> QED
  BY <2>1 DEF Orderly
<1>6. CASE UNCHANGED vars
  BY <1>6 DEF vars, Orderly
<1> QED
  BY <1>1, <1>2, <1>3, <1>4, <1>5, <1>6 DEF Next, Finished

(* A step that leaves the data alone, and lets a view show no more. *)
LEMMA DataKept ==
    ASSUME DataInv, UNCHANGED <<urData, parses, shown, mixed>>,
           Top' = "detail" => Top = "detail" /\ confirmed' \in {confirmed, shown, 0},
           call'.at = "set" \/ IsComing("detail")' =>
               id' = id /\ (call.at = "set" \/ IsComing("detail")),
           answer'.sending =>
               \/ UNCHANGED <<answer, id>>
               \/ answer'.data = 0 /\ answer'.seen = 0
               \/ answer'.data = answer'.seen /\ answer'.data = id'
               \/ /\ Top = "detail" /\ confirmed # 0 /\ id' = urData
                  /\ answer'.data = urData /\ answer'.seen = confirmed
    PROVE  DataInv'
<1> SUFFICES ASSUME ~mixed PROVE DataInv'
  BY DEF DataInv
<1>1. Len(parses') <= 1
  BY DEF DataInv
<1>2. call'.at = "set" \/ IsComing("detail")' => urData' = id' /\ parses' = <<>>
  BY DEF DataInv
<1>3. Top' = "detail" => /\ {shown', confirmed'} \subseteq {Freed, urData'}
                         /\ parses' # <<>> => urData' # Freed
                         /\ \A i \in DOMAIN parses' : parses'[i] \in {Asked, urData'}
  BY DEF DataInv, Freed
<1>4. answer'.sending /\ (answer'.data # 0 \/ answer'.seen # 0) =>
          answer'.data = answer'.seen /\ answer'.data = id'
  BY DEF DataInv, Freed
<1> QED
  BY <1>1, <1>2, <1>3, <1>4 DEF DataInv

LEMMA FreedParses ==
    ASSUME NEW s \in Seq(Int), NEW t,
           t = [i \in 1..Len(s) |-> IF s[i] = Asked THEN Asked ELSE Freed]
    PROVE  /\ t \in Seq(Int) /\ Len(t) = Len(s) /\ DOMAIN t = 1..Len(s)
           /\ \A i \in DOMAIN t : t[i] \in {Asked, Freed}
<1>1. Len(s) \in Nat /\ Asked \in Int /\ Freed \in Int
  BY DEF Asked, Freed
<1>2. t \in [1..Len(s) -> Int] /\ DOMAIN t = 1..Len(s)
      /\ \A i \in DOMAIN t : t[i] \in {Asked, Freed}
  BY <1>1
<1>3. t \in Seq(Int)
  BY <1>1, <1>2, SeqDef
<1>4. DOMAIN t = 1..Len(t) /\ Len(t) \in Nat
  BY <1>3
<1>5. Len(t) = Len(s)
  BY <1>1, <1>2, <1>4
<1> QED
  BY <1>2, <1>3, <1>5

(* Closing a transaction view frees the data no request is waiting with. *)
LEMMA CloseData ==
    ASSUME Types, ParseTypes, DataInv, NEW n \in 1..Len(stack), CloseAbove(n),
           n = 1 \/ n = Len(stack) \/ ~IsOpen("detail"),
           ~answer'.sending,
           call'.at = "set" \/ IsComing("detail")' =>
               id' = id /\ (call.at = "set" \/ IsComing("detail"))
    PROVE  DataInv'
<1>1. /\ Len(stack) \in Nat /\ DOMAIN stack = 1..Len(stack)
      /\ Len(parses) \in Nat /\ DOMAIN parses = 1..Len(parses)
  <2>1. Len(parses) \in Nat /\ DOMAIN parses = 1..Len(parses)
    BY DEF ParseTypes
  <2> QED
    BY <2>1, Basics
<1>2. CASE \E i \in n + 1..Len(stack) : stack[i] = "detail"
<2>1. Len(parses') = Len(parses)
  <3>1. parses' = [i \in 1..Len(parses) |-> IF parses[i] = Asked THEN Asked ELSE Freed]
    BY <1>1, <1>2 DEF CloseAbove, GuiTransactionDetailDeInit
  <3> QED
    BY <3>1, FreedParses DEF ParseTypes
<2>4. mixed' = (mixed \/ call.at = "set" \/ IsComing("detail"))
  BY <1>2, Zenon DEF CloseAbove, GuiTransactionDetailDeInit, At
<2>2. IsOpen("detail") /\ n # Len(stack)
  <3>1. PICK i \in n + 1..Len(stack) : stack[i] = "detail"
    BY <1>2
  <3>2. n \in 1..Len(stack) /\ i \in n + 1..Len(stack)
    OBVIOUS
  <3>4. \A m \in Nat : \A k \in 1..m : \A j \in k + 1..m : j \in 1..m /\ k # m
    OBVIOUS
  <3>3. i \in 1..Len(stack) /\ n # Len(stack)
    BY <1>1, <3>2, <3>4
  <3> QED
    BY <1>1, <3>1, <3>3 DEF IsOpen
<2>3. Top' # "detail"
  BY <2>2, CloseSeen
<2>5. ~mixed' => ~mixed /\ call.at # "set" /\ ~IsComing("detail")
  BY <2>4, Zenon
<2> QED
  BY <2>1, <2>3, <2>5 DEF DataInv
<1>3. CASE ~\E i \in n + 1..Len(stack) : stack[i] = "detail"
<2>1. UNCHANGED <<shown, confirmed, urData, parses, mixed>>
  BY <1>3 DEF CloseAbove
<2>2. Top' = "detail" => Top = "detail"
  BY CloseSeen
<2> QED
  BY <2>1, <2>2, DataKept
<1> QED
  BY <1>2, <1>3

LEMMA SameParses ==
    ASSUME ParseTypes, parses' = parses, lost' \in BOOLEAN, mixed' \in BOOLEAN,
           kinds' = kinds \/ (Len(kinds) \in Nat /\ Len(kinds') = Len(kinds) + 1)
    PROVE  ParseTypes'
<1>1. \A x \in 0..Len(kinds) : x \in 0..Len(kinds')
<2>1. CASE kinds' = kinds
  BY <2>1
<2>2. CASE Len(kinds) \in Nat /\ Len(kinds') = Len(kinds) + 1
  BY <2>2
<2> QED
  BY <2>1, <2>2
<1> QED
  BY <1>1 DEF ParseTypes

LEMMA CloseParses ==
    ASSUME ParseTypes, NEW n, CloseAbove(n), UNCHANGED kinds, lost' \in BOOLEAN,
           Len(kinds) \in Nat
    PROVE  ParseTypes'
<1>1. CASE GuiTransactionDetailDeInit
<2>1. parses \in Seq(Int) /\ DOMAIN parses = 1..Len(parses)
  BY DEF ParseTypes
<2>2. parses' = [i \in 1..Len(parses) |-> IF parses[i] = Asked THEN Asked ELSE Freed]
  BY <1>1, <2>1 DEF GuiTransactionDetailDeInit
<2>3. parses' \in Seq(Int) /\ \A i \in DOMAIN parses' : parses'[i] \in {Asked, Freed}
  BY <2>1, <2>2, FreedParses
<2>4. Freed \in 0..Len(kinds')
  BY DEF Freed
<2>5. mixed' \in BOOLEAN
  BY <1>1 DEF GuiTransactionDetailDeInit
<2> QED
  BY <2>3, <2>4, <2>5 DEF ParseTypes
<1>2. CASE UNCHANGED <<parses, mixed>>
  BY <1>2, SameParses DEF ParseTypes
<1> QED
  BY <1>1, <1>2 DEF CloseAbove

LEMMA ParseTypesStep ==
    ASSUME Types, ParseTypes, [Next]_vars
    PROVE  ParseTypes'
<1>0. /\ Len(kinds) \in Nat /\ lost \in BOOLEAN /\ mixed \in BOOLEAN
      /\ parses \in Seq(Int) /\ Len(parses) \in Nat /\ DOMAIN parses = 1..Len(parses)
  <2>1. Len(parses) \in Nat /\ DOMAIN parses = 1..Len(parses)
    BY DEF ParseTypes
  <2> QED
    BY <2>1, Basics DEF ParseTypes
<1>1. CASE \E kind \in Kinds : Receive(kind)
<2>1. PICK kind \in Kinds : kinds' = Append(kinds, kind) /\ UNCHANGED <<parses, lost, mixed>>
  BY <1>1 DEF Receive
<2>2. Len(kinds') = Len(kinds) + 1
  BY <2>1 DEF Types, Numbers
<2> QED
  BY <1>0, <2>1, <2>2, SameParses
<1>2. CASE DataParser
<2>1. UNCHANGED <<kinds, parses>> /\ (UNCHANGED mixed \/ mixed' = (mixed \/ parses # <<>>))
  BY <1>2 DEF DataParser, ParseFails, HandleHardwareCall, HandleNormalCall, ViewTypeUnsupported,
     SetData, CheckPasses, CheckFails, RefusalSent
<2>2. UNCHANGED lost \/ lost' = (lost \/ messages' = messages)
  BY <1>2 DEF DataParser, ParseFails, HandleHardwareCall, HandleNormalCall, ViewTypeUnsupported,
     SetData, CheckPasses, CheckFails, RefusalSent, PostResult, Post
<2>3. lost' \in BOOLEAN /\ mixed' \in BOOLEAN
  BY <1>0, <2>1, <2>2
<2> QED
  BY <2>1, <2>3, SameParses
<1>3. CASE HandleResult \/ HandleHardware
<2>1. UNCHANGED <<kinds, parses, lost, mixed>>
  BY <1>3 DEF HandleResult, HandleHardware
<2> QED
  BY <1>0, <2>1, SameParses
<1>4. CASE HandleDetail
<2>1. /\ UNCHANGED <<kinds, mixed>> /\ lost' \in BOOLEAN
      /\ parses' = parses \/ parses' = Append(parses, Asked)
  BY <1>0, <1>4 DEF HandleDetail
<2>2. CASE parses' = Append(parses, Asked)
  <3>1. Asked \in Int
    BY DEF Asked
  <3>2. /\ parses' \in Seq(Int) /\ DOMAIN parses' = 1..Len(parses) + 1
        /\ parses'[Len(parses) + 1] = Asked
        /\ \A i \in 1..Len(parses) : parses'[i] = parses[i]
    BY <1>0, <2>2, <3>1
  <3>3. \A i \in 1..Len(parses) + 1 : i \in 1..Len(parses) \/ i = Len(parses) + 1
    BY <1>0
  <3>4. \A i \in DOMAIN parses : parses[i] = Asked \/ parses[i] \in 0..Len(kinds)
    BY DEF ParseTypes
  <3>5. ASSUME NEW i \in DOMAIN parses'
        PROVE  parses'[i] = Asked \/ parses'[i] \in 0..Len(kinds')
    BY <1>0, <2>1, <3>2, <3>3, <3>4
  <3> QED
    BY <1>0, <2>1, <3>2, <3>5 DEF ParseTypes
<2> QED
  BY <1>0, <2>1, <2>2, SameParses
<1>5. CASE ModelParseTransaction
<2>1. PICK i \in DOMAIN parses :
          \/ /\ parses' = [k \in DOMAIN parses |-> IF k < i THEN Freed
                                              ELSE IF k = i THEN urData ELSE Asked]
             /\ UNCHANGED lost
          \/ /\ parses' = [k \in 1..Len(parses) - 1 |-> IF k < i THEN Freed ELSE Asked]
             /\ lost' = TRUE
  BY <1>5 DEF ModelParseTransaction
<2>2. UNCHANGED <<kinds, mixed>> /\ lost' \in BOOLEAN
  BY <1>0, <1>5, <2>1 DEF ModelParseTransaction
<2>3. Freed \in 0..Len(kinds) /\ urData \in 0..Len(kinds) /\ Asked \in Int
      /\ Len(parses) - 1 \in Nat
  BY <1>0, <2>1 DEF Freed, Asked, Types, Numbers
<2>4. PICK m \in Nat : parses' \in [1..m -> {Asked} \cup 0..Len(kinds)]
  <3>1. CASE parses' = [k \in DOMAIN parses |-> IF k < i THEN Freed
                                              ELSE IF k = i THEN urData ELSE Asked]
    BY <1>0, <2>3, <3>1
  <3>2. CASE parses' = [k \in 1..Len(parses) - 1 |-> IF k < i THEN Freed ELSE Asked]
    BY <1>0, <2>3, <3>2
  <3> QED
    BY <2>1, <3>1, <3>2
<2>5. parses' \in Seq(Int)
  <3>1. parses' \in [1..m -> Int]
    BY <2>3, <2>4
  <3> QED
    BY <3>1, SeqDef
<2>6. \A k \in DOMAIN parses' : parses'[k] = Asked \/ parses'[k] \in 0..Len(kinds)
  BY <2>4
<2> QED
  BY <2>2, <2>5, <2>6 DEF ParseTypes
<1>6. CASE Parsed
<2>1. UNCHANGED <<kinds, lost, mixed>> /\ parses # <<>> /\ parses' = Tail(parses)
  BY <1>6 DEF Parsed
<2>2. /\ parses' \in Seq(Int) /\ DOMAIN parses' = 1..Len(parses) - 1
      /\ \A i \in 1..Len(parses) - 1 : parses'[i] = parses[i + 1] /\ i + 1 \in 1..Len(parses)
  BY <1>0, <2>1
<2> QED
  BY <1>0, <2>1, <2>2 DEF ParseTypes
<1>7. CASE Confirm \/ VerifyPass \/ VerifyFail \/ ApproveHardware \/ RejectHardware
<2>1. UNCHANGED <<kinds, parses, lost, mixed>>
  BY <1>7 DEF Confirm, VerifyPass, VerifyFail, ApproveHardware, RejectHardware
<2> QED
  BY <1>0, <2>1, SameParses
<1>8. CASE HandleNext \/ CloseHardware \/ AnswerSent \/ GoHome \/ OtherWallet \/ Replug
<2>1. UNCHANGED kinds /\ \E n : CloseAbove(n)
  BY <1>8, Zenon DEF HandleNext, CloseHardware, AnswerSent, GoHome, OtherWallet, Replug
<2>2. UNCHANGED lost \/ lost' = (lost \/ messages' = messages)
  BY <1>8 DEF HandleNext, CloseHardware, AnswerSent, GoHome, OtherWallet, Replug, PostResult, Post
<2>3. lost' \in BOOLEAN
  BY <1>0, <2>2
<2> QED
  BY <1>0, <2>1, <2>3, CloseParses
<1>9. CASE Reject
<2>1. UNCHANGED <<kinds, lost>> /\ (UNCHANGED <<parses, mixed>> \/ CloseAbove(1))
  BY <1>9, Zenon DEF Reject
<2>2. CASE UNCHANGED <<parses, mixed>>
  BY <1>0, <2>1, <2>2, SameParses
<2>3. CASE CloseAbove(1)
  BY <1>0, <2>1, <2>3, CloseParses
<2> QED
  BY <2>1, <2>2, <2>3
<1>10. CASE UNCHANGED vars
  BY <1>0, <1>10, SameParses DEF vars
<1> QED
  BY <1>1, <1>2, <1>3, <1>4, <1>5, <1>6, <1>7, <1>8, <1>9, <1>10
     DEF Next, Finished, HandleMessage, Decision

(* Steps of the host and of the data parser task. *)
LEMMA ParserData ==
    ASSUME Types, ParseTypes, Core, DataInv, Orderly', DataParser \/ \E k \in Kinds : Receive(k)
    PROVE  DataInv'
<1>1. CASE \E k \in Kinds : Receive(k)
<2>1. /\ call'.at # "set" /\ rude' = (rude \/ id # 0)
      /\ UNCHANGED <<urData, parses, shown, mixed, confirmed, messages, stack, answer>>
  <3>1. PICK k \in Kinds : Receive(k)
    BY <1>1
  <3>2. /\ rude' = (rude \/ id # 0)
        /\ UNCHANGED <<urData, parses, shown, mixed, confirmed, messages, stack, answer>>
    BY <3>1, Zenon DEF Receive, Idle
  <3>3. call'.at # "set"
    BY <3>1 DEF Receive, NoCall
  <3> QED
    BY <3>2, <3>3
<2>2. id = 0
  BY <2>1, Zenon DEF Orderly
<2>3. ~answer'.sending /\ ~IsComing("detail")'
  BY <2>1, <2>2, SameMessages DEF Core, AnswerInv, ComingInv, Idle
<2>4. Top' = Top
  BY <2>1, SameStack
<2> QED
  BY <2>1, <2>3, <2>4, DataKept
<1>2. CASE SetData
<2>1. /\ call.at = "allowed" /\ urData' = call.req
      /\ mixed' = (mixed \/ parses # <<>>)
      /\ UNCHANGED <<id, parses, shown, confirmed, messages, stack, answer>>
  BY <1>2, Zenon DEF SetData
<2>2. /\ id = call.req /\ Top # "detail" /\ ~answer.sending
  BY <2>1 DEF Core, CallInv, AnswerInv
<2>3. ~mixed' => ~mixed /\ parses = <<>>
  BY <2>1, Zenon
<2>4. Top' = Top
  BY <2>1, SameStack
<2> QED
  BY <2>1, <2>2, <2>3, <2>4 DEF DataInv
<1>3. CASE RefusalSent
<2>1. /\ call.at = "refusing" /\ call'.at = "idle" /\ (PostResult \/ UNCHANGED messages)
      /\ UNCHANGED <<urData, parses, shown, mixed, confirmed, stack, answer>>
  BY <1>3 DEF RefusalSent, NoCall
<2>2. ~answer.sending /\ ~IsComing("detail")'
  BY <2>1, PostResultSeen DEF Core, AnswerInv, ComingInv
<2>3. Top' = Top
  BY <2>1, SameStack
<2> QED
  BY <2>1, <2>2, <2>3, DataKept
<1>4. CASE \/ ParseFails \/ HandleHardwareCall \/ HandleNormalCall \/ ViewTypeUnsupported
           \/ CheckPasses \/ CheckFails
<2>1. UNCHANGED <<id, urData, parses, shown, mixed, confirmed, stack, answer>>
  BY <1>4 DEF ParseFails, HandleHardwareCall, HandleNormalCall, ViewTypeUnsupported,
     CheckPasses, CheckFails
<2>2. call'.at # "set"
  <3>1. /\ 0 \in Nat /\ "allowed" \in Places /\ TRUE \in BOOLEAN /\ FALSE \in BOOLEAN
    BY DEF Places
  <3>2. Refuse(id, TRUE) \/ Refuse(id, FALSE) => call'.at = "refusing"
    BY <3>1, RefuseRecord
  <3>3. call' = [call EXCEPT !.at = "allowed"] => call'.at = "allowed"
    BY <3>1, AtRecord
  <3>4. call' = NoCall => call'.at = "idle"
    BY NoCallRecord
  <3>5. \/ Refuse(id, TRUE) \/ Refuse(id, FALSE) \/ call' = NoCall
        \/ call' = [call EXCEPT !.at = "allowed"]
    BY <1>4, Zenon DEF ParseFails, HandleHardwareCall, HandleNormalCall, ViewTypeUnsupported,
       CheckPasses, CheckFails
  <3> QED
    BY <3>2, <3>3, <3>4, <3>5
<2>3. IsComing("detail")' => call.at = "set" \/ IsComing("detail")
  <3>1. CASE UNCHANGED messages
    BY <3>1, SameMessages
  <3>2. CASE Post("hardware") \/ Post("next")
    BY <3>2, PostSeen DEF Messages
  <3>3. CASE CheckPasses
    BY <3>3 DEF CheckPasses
  <3>4. CASE PostResult
    BY <3>4, PostResultSeen
  <3> QED
    BY <1>4, <3>1, <3>2, <3>3, <3>4 DEF ParseFails, HandleHardwareCall, HandleNormalCall,
       ViewTypeUnsupported, CheckFails
<2>4. Top' = Top
  BY <2>1, SameStack
<2> QED
  BY <2>1, <2>2, <2>3, <2>4, DataKept
<1> QED
  BY <1>1, <1>2, <1>3, <1>4 DEF DataParser

(* A transaction view opens with the data of its request, and asks for the
   only parse. *)
LEMMA DetailData ==
    ASSUME Types, ParseTypes, Core, DataInv, HandleDetail
    PROVE  DataInv'
<1>1. /\ IsMessage("detail") /\ ~answer.sending /\ shown' = 0 /\ confirmed' = 0
      /\ parses' = parses \/ parses' = Append(parses, Asked)
      /\ UNCHANGED <<id, call, urData, mixed, answer>>
  BY DEF HandleDetail, Freed
<1>2. IsComing("detail") /\ (OnlyOne("detail") => ~IsComing("detail")')
  BY <1>1, TailComing
<1>3. call.at = "idle" /\ id # 0 /\ ~IsComing("detail")'
  BY <1>2 DEF Core, ComingInv, Idle
<1> SUFFICES ASSUME ~mixed PROVE DataInv'
  BY <1>1 DEF DataInv
<1>4. urData = id /\ parses = <<>>
  BY <1>2 DEF DataInv
<1>5. /\ Len(parses') <= 1 /\ \A i \in DOMAIN parses' : parses'[i] = Asked
<2>1. CASE parses' = <<>>
  BY <2>1
<2>2. CASE parses' = <<Asked>>
  BY <2>2
<2> QED
  BY <1>1, <1>4, <2>1, <2>2
<1> QED
  BY <1>1, <1>3, <1>4, <1>5 DEF DataInv, Freed

(* The only parse reads the data of the view that asked for it. *)
LEMMA ParseData ==
    ASSUME Types, ParseTypes, Core, DataInv, ModelParseTransaction \/ Parsed
    PROVE  DataInv'
<1>0. Len(parses) \in Nat /\ DOMAIN parses = 1..Len(parses) /\ parses \in Seq(Int)
<2>1. Len(parses) \in Nat /\ DOMAIN parses = 1..Len(parses)
  BY DEF ParseTypes
<2> QED
  BY <2>1 DEF ParseTypes
<1>1. UNCHANGED <<id, call, urData, mixed, messages, stack, confirmed, answer>>
  BY DEF ModelParseTransaction, Parsed
<1>2. Top' = Top /\ (IsComing("detail")' <=> IsComing("detail"))
  BY <1>1, SameStack, SameMessages
<1> SUFFICES ASSUME ~mixed PROVE DataInv'
  BY <1>1 DEF DataInv
<1>3. parses # <<>> /\ Len(parses) = 1 /\ DOMAIN parses = {1}
<2>1. Len(parses) <= 1
  BY DEF DataInv
<2>2. parses # <<>>
  <3>1. CASE ModelParseTransaction
    <4>1. PICK i \in DOMAIN parses : TRUE
      BY <3>1 DEF ModelParseTransaction
    <4>2. DOMAIN <<>> = {}
      OBVIOUS
    <4> QED
      BY <4>1, <4>2
  <3>2. CASE Parsed
    BY <3>2 DEF Parsed
  <3> QED
    BY <3>1, <3>2
<2>3. Len(parses) # 0
  BY <1>0, <2>2, EmptySeq
<2> QED
  BY <1>0, <2>1, <2>2, <2>3
<1>4. call'.at # "set" /\ ~IsComing("detail")'
  BY <1>1, <1>2, <1>3 DEF DataInv
<1>5. /\ Len(parses') <= 1
      /\ \A i \in DOMAIN parses' : parses'[i] \in {Asked, urData}
      /\ Top = "detail" => shown' \in {0, urData}
<2>1. CASE ModelParseTransaction
  <3>1. shown' = shown
    BY <2>1 DEF ModelParseTransaction
  <3>2. parses' = <<urData>> \/ parses' = <<>>
    <4>1. PICK i \in DOMAIN parses :
          \/ parses' = [k \in DOMAIN parses |-> IF k < i THEN Freed
                                              ELSE IF k = i THEN urData ELSE Asked]
          \/ parses' = [k \in 1..Len(parses) - 1 |-> IF k < i THEN Freed ELSE Asked]
      BY <2>1 DEF ModelParseTransaction
    <4>2. i = 1
      BY <1>3
    <4>3. CASE parses' = [k \in DOMAIN parses |-> IF k < i THEN Freed
                                              ELSE IF k = i THEN urData ELSE Asked]
      <5>1. parses' = [k \in {1} |-> urData]
        BY <1>3, <4>2, <4>3
      <5> QED
        BY <5>1
    <4>4. CASE parses' = [k \in 1..Len(parses) - 1 |-> IF k < i THEN Freed ELSE Asked]
      <5>1. \A m \in Nat : m = 1 => 1..m - 1 = {}
        OBVIOUS
      <5>2. 1..Len(parses) - 1 = {}
        BY <1>0, <1>3, <5>1
      <5>3. parses' = [k \in {} |-> IF k < i THEN Freed ELSE Asked]
        BY <4>4, <5>2
      <5>4. \A e : [k \in {} |-> IF k < e THEN Freed ELSE Asked] = <<>>
        OBVIOUS
      <5> QED
        BY <5>3, <5>4
    <4> QED
      BY <4>1, <4>3, <4>4
  <3>3. CASE parses' = <<urData>>
    BY <3>1, <3>3 DEF DataInv, Freed
  <3>4. CASE parses' = <<>>
    BY <3>1, <3>4 DEF DataInv, Freed
  <3> QED
    BY <3>2, <3>3, <3>4
<2>2. CASE Parsed
  <3>1. /\ parses' = Tail(parses) /\ Head(parses) # Asked
        /\ \/ shown' = shown
           \/ Head(parses) = Freed
           \/ shown' = Head(parses)
    BY <2>2 DEF Parsed
  <3>2. parses' = <<>> /\ Head(parses) = parses[1]
    BY <1>0, <1>3, <3>1
  <3>3. Top = "detail" => parses[1] \in {Asked, urData} /\ urData # Freed /\ shown \in {Freed, urData}
    BY <1>3 DEF DataInv
  <3>4. Top = "detail" => shown' \in {Freed, urData}
    BY <3>1, <3>2, <3>3
  <3> QED
    BY <3>2, <3>4 DEF Freed
<2> QED
  BY <2>1, <2>2
<1> QED
  BY <1>1, <1>2, <1>3, <1>4, <1>5 DEF DataInv, Freed

(* The two answers of a connection view name the request they were parsed
   from. *)
LEMMA HardwareAnswered ==
    ASSUME Types, Core, Orderly', ApproveHardware \/ HandleHardware
    PROVE  answer'.sending =>
               \/ UNCHANGED <<answer, id>>
               \/ answer'.data = 0 /\ answer'.seen = 0
               \/ answer'.data = answer'.seen /\ answer'.data = id'
<1>0. /\ hardData \in Nat /\ response \in Nat /\ 0 \in Nat /\ FALSE \in BOOLEAN
      /\ response \in {Freed, hardData} /\ id' = id /\ ~stray'
<2>1. hardData \in Nat /\ response \in Nat
  BY Basics DEF Types, Numbers
<2>2. response \in {Freed, hardData}
  BY DEF Core, KindInv
<2>3. id' = id
  BY DEF ApproveHardware, HandleHardware
<2> QED
  BY <2>1, <2>2, <2>3 DEF Orderly
<1>1. CASE ApproveHardware
<2>1. Send([NoAnswer EXCEPT !.data = response, !.seen = response], hardData)
  BY <1>1, Zenon DEF ApproveHardware
<2>2. Answers(response, response, FALSE, 0) /\ (stray' <=> (stray \/ id # hardData))
  BY <2>1, SendDataOnly
<2>3. answer'.data = response /\ answer'.seen = response
  BY <1>0, <2>2, AnswersRecord
<2> QED
  BY <1>0, <2>2, <2>3 DEF Freed
<1>2. CASE HandleHardware
<2>1. \/ /\ Send([NoAnswer EXCEPT !.data = response', !.seen = response'], hardData)
         /\ response' = hardData
      \/ UNCHANGED answer
  BY <1>2, Zenon DEF HandleHardware, Reparsed
<2>2. CASE /\ Send([NoAnswer EXCEPT !.data = response', !.seen = response'], hardData)
           /\ response' = hardData
  <3>1. Answers(hardData, hardData, FALSE, 0) /\ (stray' <=> (stray \/ id # hardData))
    BY <2>2, SendDataOnly
  <3>2. answer'.data = hardData /\ answer'.seen = hardData
    BY <1>0, <3>1, AnswersRecord
  <3> QED
    BY <1>0, <3>1, <3>2
<2> QED
  BY <1>0, <2>1, <2>2
<1> QED
  BY <1>1, <1>2

(* The answers of a transaction view: what the globals hold and what was
   confirmed, or nothing. *)
LEMMA DetailAnswered ==
    ASSUME Types, Orderly', VerifyPass \/ VerifyFail \/ (Reject /\ id # Idle) \/ RejectHardware
    PROVE  /\ UNCHANGED <<id, call, urData, parses, shown, mixed, messages>>
           /\ answer'.sending =>
               \/ UNCHANGED <<answer, id>>
               \/ answer'.data = 0 /\ answer'.seen = 0
               \/ /\ Top = "detail" /\ confirmed # 0 /\ id' = urData
                  /\ answer'.data = urData /\ answer'.seen = confirmed
           /\ Top' = "detail" => Top = "detail" /\ confirmed' \in {confirmed, 0}
<1>0. /\ urData \in Nat /\ confirmed \in Nat /\ 0 \in Nat /\ 1 \in Nat /\ Len(stack) - 1 \in Int
      /\ TRUE \in BOOLEAN /\ FALSE \in BOOLEAN /\ ~stray'
<2>1. urData \in Nat /\ confirmed \in Nat /\ Len(stack) \in Nat
  BY Basics DEF Types, Numbers
<2> QED
  BY <2>1 DEF Orderly
<1>1. UNCHANGED <<id, call, urData, parses, shown, mixed, messages>>
  BY DEF VerifyPass, VerifyFail, Reject, RejectHardware
<1>2. CASE VerifyPass
<2>1. /\ Top = "detail" /\ confirmed # 0 /\ confirmed' = 0
      /\ \/ /\ Send([NoAnswer EXCEPT !.data = urData, !.seen = confirmed, !.page = TRUE], urData)
            /\ UNCHANGED stack
         \/ UNCHANGED answer /\ stack' = Append(stack, "qr")
  BY <1>2, Zenon DEF VerifyPass, Freed
<2>2. CASE /\ Send([NoAnswer EXCEPT !.data = urData, !.seen = confirmed, !.page = TRUE], urData)
           /\ UNCHANGED stack
  <3>1. Answers(urData, confirmed, TRUE, 0) /\ (stray' <=> (stray \/ id # urData))
    BY <2>2, <1>0, SendData
  <3>2. answer'.data = urData /\ answer'.seen = confirmed
    BY <1>0, <3>1, AnswersRecord
  <3>3. id = urData
    BY <1>0, <3>1
  <3> QED
    BY <1>1, <2>1, <3>2, <3>3
<2>3. CASE UNCHANGED answer /\ stack' = Append(stack, "qr")
  BY <1>1, <2>1, <2>3, QrSeen
<2> QED
  BY <2>1, <2>2, <2>3
<1>3. CASE VerifyFail
<2>1. /\ Top = "detail" /\ confirmed' = 0 /\ UNCHANGED stack
      /\ UNCHANGED answer \/ Send(NoAnswer, urData)
  BY <1>3, Zenon DEF VerifyFail, Freed
<2>2. CASE Send(NoAnswer, urData)
  <3>1. Answers(0, 0, FALSE, 0)
    BY <2>2, SendNothing
  <3>2. answer'.data = 0 /\ answer'.seen = 0
    BY <1>0, <3>1, AnswersRecord
  <3> QED
    BY <1>1, <2>1, <3>2
<2> QED
  BY <1>1, <2>1, <2>2
<1>4. CASE Reject /\ id # Idle
<2>1. UNCHANGED <<stack, confirmed>> /\ Send([NoAnswer EXCEPT !.close = 1], urData)
  BY <1>4 DEF Reject
<2>2. Answers(0, 0, FALSE, 1)
  BY <2>1, SendNothing
<2>3. answer'.data = 0 /\ answer'.seen = 0
  BY <1>0, <2>2, AnswersRecord
<2>4. Top' = Top
  BY <2>1, SameStack
<2> QED
  BY <1>1, <2>1, <2>3, <2>4
<1>5. CASE RejectHardware
<2>1. UNCHANGED <<stack, confirmed>> /\ Top = "hardware"
      /\ Send([NoAnswer EXCEPT !.close = Len(stack) - 1], hardData)
  BY <1>5 DEF RejectHardware
<2>2. Answers(0, 0, FALSE, Len(stack) - 1)
  BY <2>1, SendNothing
<2>3. Len(stack) - 1 \in Nat
  BY <2>1, TopBelow
<2>4. answer'.data = 0 /\ answer'.seen = 0
  BY <1>0, <2>2, <2>3, AnswersRecord
<2>5. Top' = Top
  BY <2>1, SameStack
<2> QED
  BY <1>1, <2>1, <2>4, <2>5
<1> QED
  BY <1>1, <1>2, <1>3, <1>4, <1>5

(* Steps of the UI task that close no view. *)
LEMMA ViewData ==
    ASSUME Types, ParseTypes, Core, DataInv, Orderly',
           \/ HandleResult \/ HandleHardware \/ Confirm \/ VerifyPass \/ VerifyFail
           \/ (Reject /\ id # Idle) \/ ApproveHardware \/ RejectHardware \/ UNCHANGED vars
    PROVE  DataInv'
<1>1. CASE HandleResult \/ HandleHardware
<2>1. UNCHANGED <<id, call, urData, parses, shown, confirmed, mixed>>
  BY <1>1 DEF HandleResult, HandleHardware
<2>2. IsComing("detail")' => IsComing("detail")
  BY <1>1, TailComing DEF HandleResult, HandleHardware
<2>3. Top' = "detail" => Top = "detail"
  <3>1. UNCHANGED stack \/ Open("transport") \/ Open("hardware")
    BY <1>1 DEF HandleResult, HandleHardware
  <3> QED
    BY <3>1, SameStack, OpenSeen DEF Views
<2>4. CASE HandleResult
  <3>1. UNCHANGED answer
    BY <2>4 DEF HandleResult
  <3> QED
    BY <2>1, <2>2, <2>3, <3>1, DataKept
<2>5. CASE HandleHardware
  BY <2>1, <2>2, <2>3, <2>5, HardwareAnswered, DataKept
<2> QED
  BY <1>1, <2>4, <2>5
<1>2. CASE Confirm \/ ApproveHardware \/ UNCHANGED vars
<2>1. /\ UNCHANGED <<id, call, urData, parses, shown, mixed, messages, stack>>
      /\ confirmed' \in {confirmed, shown}
  BY <1>2 DEF Confirm, ApproveHardware, vars
<2>2. Top' = Top /\ (IsComing("detail")' <=> IsComing("detail"))
  BY <2>1, SameStack, SameMessages
<2>3. CASE UNCHANGED answer
  BY <2>1, <2>2, <2>3, DataKept
<2>4. CASE ApproveHardware
  BY <2>1, <2>2, <2>4, HardwareAnswered, DataKept
<2> QED
  BY <1>2, <2>3, <2>4 DEF Confirm, vars
<1>3. CASE VerifyPass \/ VerifyFail \/ (Reject /\ id # Idle) \/ RejectHardware
<2>1. /\ UNCHANGED <<id, call, urData, parses, shown, mixed, messages>>
      /\ answer'.sending =>
               \/ UNCHANGED <<answer, id>>
               \/ answer'.data = 0 /\ answer'.seen = 0
               \/ /\ Top = "detail" /\ confirmed # 0 /\ id' = urData
                  /\ answer'.data = urData /\ answer'.seen = confirmed
      /\ Top' = "detail" => Top = "detail" /\ confirmed' \in {confirmed, 0}
  BY <1>3, DetailAnswered
<2>2. IsComing("detail")' <=> IsComing("detail")
  BY <2>1, SameMessages
<2> QED
  BY <2>1, <2>2, DataKept
<1> QED
  BY <1>1, <1>2, <1>3

(* Steps that close views. *)
LEMMA ClosingData ==
    ASSUME Types, ParseTypes, Core, DataInv,
           \/ HandleNext \/ (Reject /\ id = Idle) \/ CloseHardware \/ AnswerSent
           \/ GoHome \/ OtherWallet \/ Replug
    PROVE  DataInv'
<1>0. Len(stack) \in Nat /\ 1 \in 1..Len(stack) /\ Len(stack) \in 1..Len(stack)
<2>1. Len(stack) \in Nat /\ 1 <= Len(stack)
  BY Basics
<2> QED
  BY <2>1
<1>1. CASE HandleNext \/ (Reject /\ id = Idle) \/ GoHome \/ OtherWallet \/ Replug
<2>1. /\ CloseAbove(1) \/ CloseAbove(Len(stack))
      /\ UNCHANGED <<call, answer>> /\ ~answer.sending
  BY <1>1, Zenon DEF HandleNext, Reject, GoHome, OtherWallet, Replug
<2>2. call'.at = "set" \/ IsComing("detail")' =>
          id' = id /\ (call.at = "set" \/ IsComing("detail"))
  <3>1. CASE HandleNext
    BY <3>1, TailComing DEF HandleNext
  <3>2. CASE (Reject /\ id = Idle) \/ GoHome \/ OtherWallet
    BY <3>2, SameMessages DEF Reject, GoHome, OtherWallet
  <3>3. CASE Replug
    <4>1. call'.at = "idle" /\ messages' = <<>>
      BY <3>3 DEF Replug
    <4>2. ~IsComing("detail")'
      BY <4>1 DEF IsComing
    <4> QED
      BY <4>1, <4>2
  <3> QED
    BY <1>1, <3>1, <3>2, <3>3
<2> QED
  BY <1>0, <2>1, <2>2, CloseData
<1>2. CASE CloseHardware
<2>1. /\ CloseAbove(Len(stack) - 1) /\ Top = "hardware" /\ ~answer.sending
      /\ UNCHANGED <<id, call, messages, answer>>
  BY <1>2 DEF CloseHardware
<2>2. ~IsOpen("detail") /\ Len(stack) - 1 \in 1..Len(stack)
  BY <2>1, TopBelow DEF Core, StackInv
<2>3. IsComing("detail")' <=> IsComing("detail")
  BY <2>1, SameMessages
<2> QED
  BY <2>1, <2>2, <2>3, CloseData
<1>3. CASE AnswerSent
<2>1. /\ answer.sending /\ (PostResult \/ UNCHANGED messages) /\ UNCHANGED call
      /\ CloseAbove(IF answer.close = 0 THEN Len(stack) ELSE answer.close)
      /\ ~answer'.sending
  BY <1>3 DEF AnswerSent, NoAnswer
<2>2. call'.at # "set" /\ ~IsComing("detail")'
  BY <2>1, PostResultSeen DEF Core, AnswerInv
<2>3. PICK n : n = (IF answer.close = 0 THEN Len(stack) ELSE answer.close)
  OBVIOUS
<2>4. n \in 1..Len(stack) /\ (n = 1 \/ n = Len(stack) \/ ~IsOpen("detail"))
  <3>1. \/ Top = "detail" /\ answer.close \in {0, 1}
        \/ Top = "hardware" /\ answer.close = (IF checked THEN 0 ELSE Len(stack) - 1)
    BY <2>1 DEF Core, AnswerInv
  <3>2. CASE Top = "detail" /\ answer.close \in {0, 1}
    BY <1>0, <2>3, <3>2
  <3>3. CASE Top = "hardware" /\ answer.close = (IF checked THEN 0 ELSE Len(stack) - 1)
    BY <1>0, <2>3, <3>3, TopBelow DEF Core, StackInv
  <3> QED
    BY <3>1, <3>2, <3>3
<2> QED
  BY <2>1, <2>2, <2>3, <2>4, CloseData
<1> QED
  BY <1>1, <1>2, <1>3

LEMMA MixedStays ==
    ASSUME [Next]_vars
    PROVE  mixed => mixed'
<1>1. ASSUME NEW n, CloseAbove(n) PROVE mixed => mixed'
<2>1. UNCHANGED mixed \/ mixed' = (mixed \/ At("set") \/ IsComing("detail"))
  BY <1>1, Zenon DEF CloseAbove, GuiTransactionDetailDeInit
<2> QED
  BY <2>1, Zenon
<1>2. CASE \/ HandleNext \/ Reject \/ CloseHardware \/ AnswerSent \/ GoHome \/ OtherWallet
           \/ Replug
<2>1. UNCHANGED mixed \/ \E n : CloseAbove(n)
  BY <1>2, Zenon DEF HandleNext, Reject, CloseHardware, AnswerSent, GoHome, OtherWallet, Replug
<2> QED
  BY <1>1, <2>1
<1>3. CASE SetData
<2>1. mixed' = (mixed \/ parses # <<>>)
  BY <1>3 DEF SetData
<2> QED
  BY <2>1, Zenon
<1>4. CASE \/ \E kind \in Kinds : Receive(kind)
           \/ ParseFails \/ HandleHardwareCall \/ HandleNormalCall \/ ViewTypeUnsupported
           \/ CheckPasses \/ CheckFails \/ RefusalSent
  BY <1>4 DEF Receive, ParseFails, HandleHardwareCall, HandleNormalCall, ViewTypeUnsupported,
     CheckPasses, CheckFails, RefusalSent
<1>5. CASE \/ HandleResult \/ HandleDetail \/ HandleHardware \/ ModelParseTransaction \/ Parsed
           \/ Confirm \/ VerifyPass \/ VerifyFail \/ ApproveHardware \/ RejectHardware
           \/ UNCHANGED vars
  BY <1>5 DEF HandleResult, HandleDetail, HandleHardware, ModelParseTransaction, Parsed,
     Confirm, VerifyPass, VerifyFail, ApproveHardware, RejectHardware, vars
<1> QED
  BY <1>2, <1>3, <1>4, <1>5, Zenon DEF Next, Finished, DataParser, HandleMessage, Decision

(* What is answered was seen: an answer is only sent with the data that
   DataInv gives it, and a refusal has none. *)
LEMMA SeenStep ==
    ASSUME Types, ParseTypes, SeenInv, RequestInv, [Next]_vars
    PROVE  SeenInv'
<1> SUFFICES ASSUME Orderly' PROVE DataInv' /\ SignedIsSeen'
  BY DEF SeenInv
<1>1. Orderly /\ Core /\ DataInv /\ SignedIsSeen
  BY OrderlyBefore DEF SeenInv, RequestInv
<1>2. DataInv'
<2>1. CASE DataParser \/ \E kind \in Kinds : Receive(kind)
  BY <1>1, <2>1, ParserData
<2>2. CASE HandleDetail
  BY <1>1, <2>2, DetailData
<2>3. CASE ModelParseTransaction \/ Parsed
  BY <1>1, <2>3, ParseData
<2>4. CASE \/ HandleResult \/ HandleHardware \/ Confirm \/ VerifyPass \/ VerifyFail
           \/ (Reject /\ id # Idle) \/ ApproveHardware \/ RejectHardware \/ UNCHANGED vars
  BY <1>1, <2>4, ViewData
<2>5. CASE \/ HandleNext \/ (Reject /\ id = Idle) \/ CloseHardware \/ AnswerSent
           \/ GoHome \/ OtherWallet \/ Replug
  BY <1>1, <2>5, ClosingData
<2> QED
  BY <2>1, <2>2, <2>3, <2>4, <2>5, Zenon DEF Next, Finished, HandleMessage, Decision
<1>3. SignedIsSeen'
<2>1. CASE RefusalSent
  <3>1. /\ replies' = Append(replies, [to |-> call.to, for |-> call.req, data |-> 0, seen |-> 0])
        /\ UNCHANGED mixed
    BY <2>1 DEF RefusalSent
  <3>2. PICK e \in Reply : replies' = Append(replies, e) /\ e.data = 0 /\ e.seen = 0
    <4>1. [to |-> call.to, for |-> call.req, data |-> 0, seen |-> 0] \in Reply
      BY DEF Types, Shapes, CallShape, Reply
    <4> QED
      BY <3>1, <4>1
  <3> QED
    BY <1>1, <3>1, <3>2, ReplyAppended, Basics DEF SignedIsSeen
<2>2. CASE AnswerSent
  <3>1. /\ answer.sending
        /\ replies' = IF answer.to = Idle THEN replies
                      ELSE Append(replies, [to |-> answer.to, for |-> answer.to,
                                            data |-> answer.data, seen |-> answer.seen])
        /\ mixed => mixed'
    <4>1. UNCHANGED mixed \/ mixed' = (mixed \/ At("set") \/ IsComing("detail"))
      BY <2>2, Zenon DEF AnswerSent, CloseAbove, GuiTransactionDetailDeInit
    <4>2. mixed => mixed'
      BY <4>1, Zenon
    <4> QED
      BY <2>2, <4>2 DEF AnswerSent
  <3>2. CASE replies' = replies
    BY <1>1, <3>1, <3>2 DEF SignedIsSeen
  <3>3. CASE replies' = Append(replies, [to |-> answer.to, for |-> answer.to,
                                         data |-> answer.data, seen |-> answer.seen])
    <4>1. PICK e \in Reply : /\ replies' = Append(replies, e) /\ e.to = answer.to
                              /\ e.data = answer.data /\ e.seen = answer.seen
      BY <3>3 DEF Types, Shapes, AnswerShape, Reply
    <4>2. ~mixed /\ (e.data # 0 \/ e.seen # 0) => e.data = e.seen /\ e.data = e.to
      BY <1>1, <3>1, <4>1 DEF DataInv, Core, AnswerInv
    <4>3. /\ Len(replies) \in Nat /\ DOMAIN replies = 1..Len(replies)
          /\ DOMAIN replies' = 1..Len(replies) + 1
          /\ \A i \in 1..Len(replies) : replies'[i] = replies[i]
          /\ replies'[Len(replies) + 1] = e
      BY <4>1, ReplyAppended, Basics
    <4> SUFFICES ASSUME ~mixed', NEW i \in DOMAIN replies',
                        replies'[i].data # 0 \/ replies'[i].seen # 0
                 PROVE  replies'[i].data = replies'[i].seen /\ replies'[i].data = replies'[i].to
      BY DEF SignedIsSeen
    <4>4. CASE i \in 1..Len(replies)
      BY <1>1, <3>1, <4>3, <4>4 DEF SignedIsSeen
    <4>5. CASE i = Len(replies) + 1
      BY <3>1, <4>2, <4>3, <4>5
    <4> QED
      BY <4>3, <4>4, <4>5
  <3> QED
    BY <3>1, <3>2, <3>3
<2>3. CASE ~RefusalSent /\ ~AnswerSent
  <3>1. UNCHANGED replies
    <4>1. CASE DataParser \/ \E kind \in Kinds : Receive(kind)
      BY <2>3, <4>1 DEF DataParser, Receive, ParseFails, HandleHardwareCall, HandleNormalCall,
         ViewTypeUnsupported, SetData, CheckPasses, CheckFails
    <4>2. CASE HandleMessage \/ ModelParseTransaction \/ Parsed
      BY <4>2 DEF HandleMessage, HandleResult, HandleNext, HandleDetail, HandleHardware,
         ModelParseTransaction, Parsed
    <4>3. CASE Decision \/ GoHome \/ OtherWallet \/ Replug \/ UNCHANGED vars
      BY <4>3 DEF Decision, Confirm, VerifyPass, VerifyFail, Reject, ApproveHardware,
         RejectHardware, CloseHardware, GoHome, OtherWallet, Replug, vars
    <4> QED
      BY <2>3, <4>1, <4>2, <4>3 DEF Next, Finished
  <3>2. mixed => mixed'
    BY <2>3, MixedStays
  <3> QED
    BY <1>1, <3>1, <3>2 DEF SignedIsSeen
<2> QED
  BY <2>1, <2>2, <2>3
<1> QED
  BY <1>2, <1>3

-----------------------------------------------------------------------------
(* All steps together                                                       *)

LEMMA InitHolds ==
    ASSUME Init PROVE Types /\ ParseTypes /\ RequestInv /\ SeenInv
<1>1. /\ Len(kinds) = 0 /\ Len(messages) = 0 /\ Len(stack) = 1 /\ DOMAIN stack = {1}
      /\ DOMAIN messages = {} /\ DOMAIN replies = {} /\ stack[1] = "home"
  BY DEF Init
<1>2. kinds \in Seq(Kinds) /\ messages \in Seq(Messages) /\ stack \in Seq(Views)
      /\ replies \in Seq(Reply)
  BY DEF Init, Views
<1>3. Flags
  BY DEF Init, Flags
<1>4. Shapes
  BY DEF Init, Shapes, CallShape, AnswerShape, Places, NoCall, NoAnswer, Idle
<1>5. Numbers
  BY <1>1, <1>2, BoundAssumption DEF Init, Numbers, NoCall, NoAnswer, Idle, Freed
<1>6. Queues
  BY <1>1, <1>2, BoundAssumption DEF Init, Queues, NoAnswer
<1>7. ~IsComing("detail") /\ ~IsComing("hardware") /\ OnlyOne("detail") /\ OnlyOne("hardware")
  BY <1>1 DEF IsComing, OnlyOne
<1>8. Top = "home" /\ Bottom
  BY <1>1 DEF Top, Bottom
<1>9. IdInv /\ KindInv /\ CallInv /\ ComingInv
  BY <1>1, <1>7 DEF Init, IdInv, KindInv, CallInv, ComingInv, NoCall, Idle, Freed
<1>10. StackInv /\ ViewInv /\ AnswerInv
  BY <1>7, <1>8 DEF Init, StackInv, ViewInv, AnswerInv, NoAnswer
<1>11. AnsweredOnce
  BY <1>1 DEF AnsweredOnce
<1>12. ResponseAlive
  BY DEF Init, ResponseAlive
<1>13. parses \in Seq(Int) /\ DOMAIN parses = {} /\ Len(parses) = 0
  BY DEF Init
<1>14. ParseTypes
  BY <1>13 DEF Init, ParseTypes
<1>15. SeenInv
  BY <1>1, <1>7, <1>8, <1>13 DEF Init, SeenInv, DataInv, SignedIsSeen, NoCall, NoAnswer
<1> QED
  BY <1>2, <1>3, <1>4, <1>5, <1>6, <1>9, <1>10, <1>11, <1>12, <1>14, <1>15
     DEF Types, RequestInv, Core

LEMMA NothingHappens ==
    ASSUME Types, UNCHANGED vars
    PROVE  Types' /\ (RequestInv => RequestInv')
<1>1. Types'
  BY DEF Types, Flags, Shapes, Numbers, Queues, vars
<1>2. Core => Core'
<2> SUFFICES ASSUME Core PROVE Core'
  OBVIOUS
<2>1. \A k : (IsComing(k)' <=> IsComing(k)) /\ (OnlyOne(k)' <=> OnlyOne(k))
  BY SameMessages DEF vars
<2>2. Top' = Top /\ (\A k : IsOpen(k)' <=> IsOpen(k)) /\ (Bottom' <=> Bottom)
  BY SameStack DEF vars
<2>3. IdInv' /\ KindInv' /\ CallInv'
  BY <2>2 DEF Core, IdInv, KindInv, CallInv, vars
<2>4. ComingInv' /\ StackInv'
  BY <2>1, <2>2 DEF Core, ComingInv, StackInv, vars
<2>5. ViewInv' /\ AnswerInv'
  BY <2>1, <2>2 DEF Core, ViewInv, AnswerInv, vars
<2>6. AnsweredOnce'
  BY DEF Core, AnsweredOnce, Orderly, vars
<2>7. ResponseAlive'
  BY DEF Core, ResponseAlive, Orderly, vars
<2> QED
  BY <2>3, <2>4, <2>5, <2>6, <2>7 DEF Core
<1>3. Orderly' = Orderly
  BY DEF Orderly, vars
<1> QED
  BY <1>1, <1>2, <1>3 DEF RequestInv

LEMMA StepKeeps ==
    ASSUME Types, ParseTypes, [Next]_vars
    PROVE  Types' /\ (RequestInv => RequestInv')
<1>1. CASE \E kind \in Kinds : Receive(kind)
  BY <1>1, ReceiveStep
<1>2. CASE DataParser
  BY <1>2, ParseFailsStep, HandleHardwareCallStep, HandleNormalCallStep, ViewTypeUnsupportedStep,
     SetDataStep, CheckPassesStep, CheckFailsStep, RefusalSentStep DEF DataParser
<1>3. CASE HandleMessage
  BY <1>3, HandleResultStep, HandleNextStep, HandleDetailStep, HandleHardwareStep
     DEF HandleMessage
<1>4. CASE Decision
  BY <1>4, ConfirmStep, VerifyPassStep, VerifyFailStep, RejectStep, ApproveHardwareStep,
     RejectHardwareStep, CloseHardwareStep DEF Decision
<1>5. CASE ModelParseTransaction \/ Parsed \/ AnswerSent \/ GoHome \/ OtherWallet \/ Replug
  BY <1>5, ParsedStep, AnswerSentStep, GoHomeStep, OtherWalletStep, ReplugStep
<1>6. CASE UNCHANGED vars
  BY <1>6, NothingHappens
<1> QED
  BY <1>1, <1>2, <1>3, <1>4, <1>5, <1>6 DEF Next, Finished

Always == Types /\ ParseTypes /\ RequestInv /\ SeenInv

LEMMA AlwaysHolds == Spec => []Always
<1>1. Init => Always
  BY InitHolds DEF Always
<1>2. Always /\ [Next]_vars => Always'
  BY StepKeeps, ParseTypesStep, SeenStep DEF Always
<1> QED
  BY <1>1, <1>2, PTL DEF Spec

-----------------------------------------------------------------------------
(* The properties                                                           *)

(* What is signed was on the display when the password was given, and the   *)
(* answer names the request it was made for (GuiTransactionDetail-          *)
(* VerifyPasswordSuccess, UpdateAndParseHardwareCall, HandleURResultVia-    *)
(* USBFunc), as long as the host waits for its answers and no view answers  *)
(* a request it was not opened for, and unless the data of the next request *)
(* were set under a parse of the one before, or freed with its view.        *)
THEOREM WhatIsSignedWasSeen == Spec => []SignedIsSeen
<1>1. Always => SignedIsSeen
  BY DEF Always, SeenInv, SignedIsSeen
<1> QED
  BY <1>1, AlwaysHolds, PTL

(* No request is answered twice: g_requestID is idle before another answer  *)
(* can be begun, whichever of the two tasks gives it.                       *)
THEOREM EachIsAnsweredOnce == Spec => []AnsweredOnce
<1>1. Always => AnsweredOnce
  BY DEF Always, RequestInv, Core, AnsweredOnce
<1> QED
  BY <1>1, AlwaysHolds, PTL

(* The connection view does not answer from a freed response, unless it was *)
(* closed while the message that opens it was on the way.                   *)
THEOREM ResponseStaysAlive == Spec => []ResponseAlive
<1>1. Always => ResponseAlive
  BY DEF Always, RequestInv, Core, ResponseAlive
<1> QED
  BY <1>1, AlwaysHolds, PTL

(* The variables of the request path keep their types, and g_uiQueue its    *)
(* size (UiQueue).                                                          *)
THEOREM TypesOfUsbRequest == Spec => []TypeOK
<1>1. ASSUME Always PROVE TypeOK
<2>1. {id, call.req, call.to, urData, hardData, response, shown, confirmed,
       answer.to, answer.data, answer.seen} \subseteq 0..Len(kinds)
  BY <1>1 DEF Always, Types, Numbers
<2>2. call.at \in {"idle", "begun", "allowed", "set", "refusing"} /\ call.page \in BOOLEAN
      /\ answer.sending \in BOOLEAN /\ answer.page \in BOOLEAN
  BY <1>1 DEF Always, Types, Shapes, CallShape, AnswerShape, Places
<2>3. checked \in BOOLEAN /\ rude \in BOOLEAN /\ early \in BOOLEAN
      /\ dangling \in BOOLEAN
  BY <1>1 DEF Always, Types, Flags
<2>4. lost \in BOOLEAN /\ mixed \in BOOLEAN
  BY <1>1 DEF Always, ParseTypes
<2>5. {checked, rude, early, dangling, lost, mixed,
       call.page, answer.sending, answer.page} \subseteq BOOLEAN
  BY <2>2, <2>3, <2>4, Zenon
<2>6. parses \in Seq({Asked} \cup 0..Len(kinds))
  <3>1. parses \in [1..Len(parses) -> {Asked} \cup 0..Len(kinds)] /\ Len(parses) \in Nat
    BY <1>1 DEF Always, ParseTypes
  <3> QED
    BY <3>1, SeqDef
<2> QED
  BY <1>1, <2>1, <2>2, <2>5, <2>6 DEF Always, Types, Numbers, Queues, TypeOK
<1> QED
  BY <1>1, AlwaysHolds, PTL
=============================================================================
