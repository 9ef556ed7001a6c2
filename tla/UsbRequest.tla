----------------------------- MODULE UsbRequest -----------------------------
(***************************************************************************)
(* A request to sign that comes over USB: from ProcessURService            *)
(* (service_resolve_ur.c) in the data parser task, through the globals of  *)
(* the chains and of the connection view and through the UI queue, to the  *)
(* view the user decides in and to the answer the host gets.               *)
(*                                                                         *)
(* The data parser task and the UI task have the same priority and share   *)
(* g_requestID, the parsed request and the stack of views without a lock;  *)
(* the UI task also answers, and both sleep while an answer is sent.       *)
(* The background task parses what the view is to show, from the same      *)
(* globals, and is not stopped when the view closes, which frees them.     *)
(* All requests are for the same chain, which shares the most.             *)
(*                                                                         *)
(* The lock page is the subject of LockScreen: here a request either finds *)
(* the device ready or is turned away.                                     *)
(***************************************************************************)
EXTENDS Integers, Sequences

CONSTANTS
    UiQueue,     \* messages g_uiQueue holds (5)
    MaxRequests  \* bound: requests of the host

ASSUME BoundAssumption == {UiQueue, MaxRequests} \subseteq Nat \ {0}

VARIABLES
    kinds,    \* what the host has asked for, by request
    id,       \* g_requestID
    call,     \* where ProcessURService is
    urData,   \* the request whose UR the globals of the chain hold
    hardData, \* g_urResult of the connection view
    response, \* g_response and g_callData, parsed from hardData
    messages, \* g_uiQueue
    stack,    \* the open views, the working view last
    parses,   \* the parses under way, by the UR that was read: see Asked
    shown,    \* the request the transaction view shows
    confirmed,\* what it showed when the password was given
    checked,  \* g_isUsbPassWordCheck
    answer,   \* the answer the UI task is sending
    replies,  \* history: the answers, and the request each was meant for
    rude,     \* history: a request came while another had the device
    dropped,  \* history: requests whose view was closed without an answer
    twice,    \* history: the views that were opened while they were open
    stray,    \* history: the UI answered a request its view was not opened for
    early,    \* history: a connection view closed with its message on the way
    dangling, \* history: a freed response was used
    lost,     \* history: a queue was full, and a message or a job lost
    mixed     \* history: a transaction view met the next one's data, see SetData

serviceVars == <<kinds, call>>
dataVars == <<urData, hardData, response>>
viewVars == <<stack, parses, shown, confirmed, checked>>
queue == <<messages, lost>>
history == <<rude, dropped, twice, stray, early, dangling, mixed>>
vars == <<serviceVars, id, dataVars, queue, viewVars, answer, replies, history>>

Idle == 0      \* REQUEST_ID_IDLE
Freed == 0
Asked == -1    \* a parse that has not begun; Freed: one whose memory was freed
Requests == 1..MaxRequests
Kinds == {"sign", "hardware"}
Views == {"home", "transport", "detail", "hardware", "qr"}
Messages == {"result", "next", "hardware", "detail"}

NoCall == [at |-> "idle", req |-> Idle, to |-> Idle, page |-> FALSE]
NoAnswer == [sending |-> FALSE, to |-> Idle, data |-> 0, seen |-> 0,
             page |-> FALSE, close |-> 0]

Init ==
    /\ kinds = <<>> /\ id = Idle /\ call = NoCall
    /\ urData = Freed /\ hardData = Freed /\ response = Freed
    /\ messages = <<>>
    /\ stack = <<"home">> /\ parses = <<>> /\ shown = Freed /\ confirmed = Freed
    /\ checked = FALSE
    /\ answer = NoAnswer /\ replies = <<>>
    /\ rude = FALSE /\ dropped = {} /\ twice = {} /\ stray = FALSE
    /\ early = FALSE /\ dangling = FALSE /\ lost = FALSE /\ mixed = FALSE

Top == stack[Len(stack)]
IsOpen(view) == \E i \in DOMAIN stack : stack[i] = view

(* Mutant: the home view need not be the one on top. *)
GuiHomePageIsOpen == IsOpen("home")

GuiHomePageIsTop == Top = "home"

IsComing(m) == \E i \in DOMAIN messages : messages[i] = m

With(m) == IF Len(messages) < UiQueue THEN Append(messages, m) ELSE messages

(* PubValueMsg and PubBufferMsg.  All signals of all tasks go through this  *)
(* queue, so that any message may find it full.                             *)
Post(m) ==
    /\ messages' \in {messages, With(m)}
    /\ lost' = (lost \/ messages' = messages)

(* GotoResultPage *)
PostResult == IF Top = "transport" THEN UNCHANGED <<messages, lost>> ELSE Post("result")

-----------------------------------------------------------------------------
(* The data parser task: ProcessURService.                                  *)

At(place) == call.at = place

(* Mutant: a failed check opens no page and gives no answer. *)
RefuseSilently(to, page) == call' = NoCall

(* HandleURResultViaUSBFunc: whom it answers is read when it is called.     *)
Refuse(to, page) == call' = [call EXCEPT !.at = "refusing", !.to = to, !.page = page]

(* IsRequestAllowed *)
NothingPending == id = Idle

Receive(kind) ==
    /\ At("idle") /\ Len(kinds) < MaxRequests
    /\ kinds' = Append(kinds, kind)
    /\ rude' = (rude \/ id # Idle)
    /\ \/ /\ NothingPending
          /\ id' = Len(kinds')
          /\ call' = [NoCall EXCEPT !.at = "begun", !.req = id']
       \/ /\ NothingPending          \* locked, a Ton wallet, or in the setup
          /\ call' = [NoCall EXCEPT !.at = "refusing", !.req = Len(kinds'), !.to = id]
          /\ UNCHANGED id
       \/ /\ ~NothingPending         \* Previous request is not finished
          /\ call' = [NoCall EXCEPT !.at = "refusing", !.req = Len(kinds'), !.to = Len(kinds')]
          /\ UNCHANGED id
    /\ UNCHANGED <<dataVars, queue, viewVars, answer, replies, dropped, twice, stray,
                   early, dangling, mixed>>

(* parse_ur *)
ParseFails ==
    /\ At("begun") /\ Refuse(id, TRUE)
    /\ UNCHANGED <<kinds, id, dataVars, queue, viewVars, answer, replies, history>>

(* HandleHardwareCall: GuiSetKeyDerivationRequestData frees the request     *)
(* before, and what was parsed from it.                                     *)
HandleHardwareCall ==
    /\ At("begun") /\ kinds[call.req] = "hardware"
    /\ IF Top \in {"hardware", "home"}
       THEN /\ hardData' = call.req /\ response' = Freed
            /\ Post("hardware")
            /\ call' = NoCall
       ELSE Refuse(id, FALSE) /\ UNCHANGED <<hardData, response, queue>>
    /\ UNCHANGED <<kinds, id, urData, viewVars, answer, replies, history>>

(* HandleNormalCall and CheckViewTypeIsAllow *)
HandleNormalCall ==
    /\ At("begun") /\ kinds[call.req] = "sign"
    /\ \/ /\ GuiHomePageIsTop /\ call' = [call EXCEPT !.at = "allowed"]
          /\ UNCHANGED queue
       \/ /\ Top = "transport" /\ call' = [call EXCEPT !.at = "allowed"]
          /\ Post("next")
       \/ /\ Top \notin {"home", "transport"} /\ Refuse(id, FALSE)
          /\ UNCHANGED queue
    /\ UNCHANGED <<kinds, id, dataVars, viewVars, answer, replies, history>>

ViewTypeUnsupported ==
    /\ At("allowed") /\ Refuse(id, TRUE)
    /\ UNCHANGED <<kinds, id, dataVars, queue, viewVars, answer, replies, history>>

(* HandleDefaultViewType: the data of the request are set, whatever is      *)
(* still being parsed.  They meet the view of the one before if such a      *)
(* parse goes on, or if that view, below the page of its result, is closed  *)
(* later than this, see CloseAbove.                                         *)
SetData ==
    /\ At("allowed")
    /\ urData' = call.req /\ call' = [call EXCEPT !.at = "set"]
    /\ mixed' = (mixed \/ parses # <<>>)
    /\ UNCHANGED <<kinds, id, hardData, response, queue, viewVars, answer, replies,
                   rude, dropped, twice, stray, early, dangling>>

(* HandleCheckResult; GotoFailPage opens the result page before it answers. *)
CheckPasses ==
    /\ At("set")
    /\ Post("detail") /\ call' = NoCall
    /\ UNCHANGED <<kinds, id, dataVars, viewVars, answer, replies, history>>

CheckFails ==
    /\ At("set")
    /\ PostResult /\ Refuse(id, TRUE)
    /\ UNCHANGED <<kinds, id, dataVars, viewVars, answer, replies, history>>

(* BasicHandlerFunc, after SendEApduResponse has slept, and the result page *)
RefusalSent ==
    /\ At("refusing")
    /\ replies' = Append(replies, [to |-> call.to, for |-> call.req, data |-> 0, seen |-> 0])
    /\ id' = Idle
    /\ IF call.page THEN PostResult ELSE UNCHANGED queue
    /\ call' = NoCall
    /\ UNCHANGED <<kinds, dataVars, viewVars, answer, history>>

-----------------------------------------------------------------------------
(* The UI task.                                                             *)

Free == ~answer.sending /\ twice = {}

(* GuiFrameOpenViewWithParam does not ask whether the view is open: one     *)
(* that is becomes its own predecessor, and the model ends there.           *)
Open(view) ==
    IF IsOpen(view)
    THEN twice' = {view} /\ UNCHANGED stack
    ELSE stack' = Append(stack, view) /\ UNCHANGED twice

(* GuiTemplateClosePage frees the UR and what was parsed from it, also under *)
(* a parse that is running; one that was only asked for still comes.  It     *)
(* does for the chain of g_reMapIndex, the last one displayed: this chain    *)
(* is taken to be it.                                                        *)
GuiTransactionDetailDeInit ==
    /\ shown' = Freed /\ confirmed' = Freed
    /\ urData' = Freed
    /\ parses' = [i \in DOMAIN parses |-> IF parses[i] = Asked THEN Asked ELSE Freed]
    /\ mixed' = (mixed \/ At("set") \/ IsComing("detail"))

(* GuiKeyDerivationRequestDeInit frees its request. *)
GuiKeyDerivationRequestDeInit ==
    /\ hardData' = Freed /\ response' = Freed
    /\ early' = (early \/ IsComing("hardware"))

(* GuiCloseToTargetView and GuiCloseCurrentWorkingView: the views above the *)
(* nth are closed.                                                          *)
CloseAbove(n) ==
    /\ stack' = SubSeq(stack, 1, n)
    /\ IF \E i \in n + 1..Len(stack) : stack[i] = "hardware"
       THEN GuiKeyDerivationRequestDeInit
       ELSE UNCHANGED <<hardData, response, early>>
    /\ IF \E i \in n + 1..Len(stack) : stack[i] = "detail"
       THEN GuiTransactionDetailDeInit
       ELSE UNCHANGED <<shown, confirmed, urData, parses, mixed>>

IsMessage(m) ==
    /\ Free /\ messages # <<>> /\ Head(messages) = m
    /\ messages' = Tail(messages)

HandleResult ==
    /\ IsMessage("result") /\ Open("transport")
    /\ UNCHANGED <<serviceVars, id, dataVars, parses, shown, confirmed, checked, lost,
                   answer, replies, rude, dropped, stray, early, dangling, mixed>>

HandleNext ==
    /\ IsMessage("next")
    /\ CloseAbove(IF Top = "transport" THEN 1 ELSE Len(stack))
    /\ UNCHANGED <<serviceVars, id, checked, lost, answer, replies,
                   rude, dropped, stray, twice, dangling>>

(* GuiTransactionDetailInit asks the background task to parse, whose queue  *)
(* of jobs may be full.                                                     *)
HandleDetail ==
    /\ IsMessage("detail") /\ Open("detail")
    /\ shown' = Freed /\ confirmed' = Freed
    /\ \/ parses' = Append(parses, Asked) /\ UNCHANGED lost
       \/ lost' = TRUE /\ UNCHANGED parses
    /\ UNCHANGED <<serviceVars, id, dataVars, checked, answer, replies, rude, dropped, stray,
                   early, dangling, mixed>>

(* HandleURResultViaUSBFunc of the UI task: whom it answers is read when it  *)
(* is called, and is not kept with the view.                                *)
Send(reply, own) ==
    /\ answer' = [reply EXCEPT !.sending = TRUE, !.to = id]
    /\ stray' = (stray \/ id # own)

(* Mutant: an open view answers from what it has. *)
KeptResponse == response

(* ModelParseQRHardwareCall *)
Reparsed == hardData

(* UpdateAndParseHardwareCall if the view is open: a request is approved    *)
(* without the user once the password was given in that view.  Otherwise    *)
(* the new request is only parsed when the view opens.                      *)
HandleHardware ==
    /\ IsMessage("hardware")
    /\ \/ /\ Top = "hardware" /\ checked
          /\ response' = Reparsed
          /\ Send([NoAnswer EXCEPT !.data = response', !.seen = response'], hardData)
          /\ UNCHANGED <<stack, checked, twice>>
       \/ /\ Top = "hardware" /\ ~checked
          /\ UNCHANGED <<response, answer, stack, checked, twice, stray>>
       \/ /\ Top # "hardware"
          /\ Open("hardware") /\ response' = hardData /\ checked' = FALSE
          /\ UNCHANGED <<answer, stray>>
    /\ dangling' = (dangling \/ (response' = Freed /\ (checked \/ Top # "hardware")))
    /\ UNCHANGED <<serviceVars, id, urData, hardData, parses, shown, confirmed, lost,
                   replies, rude, dropped, early, mixed>>

(* The background task parses the UR the globals hold by then, and frees    *)
(* the result of the parse before; its message may be lost.                 *)
ModelParseTransaction ==
    /\ twice = {}
    /\ \E i \in DOMAIN parses :
        /\ parses[i] = Asked /\ \A k \in 1..i - 1 : parses[k] # Asked
        /\ \/ /\ parses' = [k \in DOMAIN parses |-> IF k < i THEN Freed
                                                  ELSE IF k = i THEN urData ELSE Asked]
              /\ UNCHANGED lost
           \/ /\ parses' = [k \in 1..Len(parses) - 1 |-> IF k < i THEN Freed ELSE Asked]
              /\ lost' = TRUE
    /\ UNCHANGED <<serviceVars, id, dataVars, messages, stack, shown, confirmed, checked,
                   answer, replies, history>>

(* GuiTransactionDetailParseSuccess of the view that is open by then, which *)
(* may be a later one; a result that was freed may show anything.           *)
Parsed ==
    /\ Free /\ parses # <<>> /\ Head(parses) # Asked
    /\ parses' = Tail(parses)
    /\ IF ~IsOpen("detail") THEN UNCHANGED shown
       ELSE shown' \in IF Head(parses) = Freed THEN 0..Len(kinds) ELSE {Head(parses)}
    /\ UNCHANGED <<serviceVars, id, dataVars, queue, stack, confirmed, checked,
                   answer, replies, history>>

(* The user slides and gives the password for what he sees.                 *)
Confirm ==
    /\ Free /\ Top = "detail" /\ shown # Freed /\ confirmed = Freed
    /\ confirmed' = shown
    /\ UNCHANGED <<serviceVars, id, dataVars, queue, stack, parses, shown, checked,
                   answer, replies, history>>

(* GuiTransactionDetailVerifyPasswordSuccess: without an id it is a         *)
(* transaction of a QR code.                                                *)
VerifyPass ==
    /\ Free /\ Top = "detail" /\ confirmed # Freed
    /\ confirmed' = Freed
    /\ IF id # Idle
       THEN /\ Send([NoAnswer EXCEPT !.data = urData, !.seen = confirmed, !.page = TRUE], urData)
            /\ UNCHANGED stack
       ELSE stack' = Append(stack, "qr") /\ UNCHANGED <<answer, stray>>
    /\ UNCHANGED <<serviceVars, id, dataVars, queue, parses, shown, checked,
                   replies, rude, dropped, twice, early, dangling, mixed>>

(* GuiSignVerifyPasswordErrorCount: after five errors the host is answered. *)
VerifyFail ==
    /\ Free /\ Top = "detail" /\ confirmed # Freed
    /\ confirmed' = Freed
    /\ \/ UNCHANGED <<answer, stray>>
       \/ id # Idle /\ Send(NoAnswer, urData)
    /\ UNCHANGED <<serviceVars, id, dataVars, queue, stack, parses, shown, checked,
                   replies, rude, dropped, twice, early, dangling, mixed>>

(* TransactionGoToHomeViewHandler: the answer, if it is one of USB, is sent *)
(* before the view closes.                                                  *)
Reject ==
    /\ Free /\ Top = "detail" /\ confirmed = Freed
    /\ IF id # Idle
       THEN /\ Send([NoAnswer EXCEPT !.close = 1], urData)
            /\ UNCHANGED <<dataVars, stack, parses, shown, confirmed, early, mixed>>
       ELSE CloseAbove(1) /\ UNCHANGED <<answer, stray>>
    /\ UNCHANGED <<serviceVars, id, queue, checked, replies,
                   rude, dropped, twice, dangling>>

(* HiddenKeyboardAndShowAnimateQR of a request of USB; the view stays open, *)
(* with one button to close it.                                             *)
ApproveHardware ==
    /\ Free /\ Top = "hardware" /\ ~checked
    /\ checked' = TRUE
    /\ dangling' = (dangling \/ response = Freed)
    /\ Send([NoAnswer EXCEPT !.data = response, !.seen = response], hardData)
    /\ UNCHANGED <<serviceVars, id, dataVars, queue, stack, parses, shown, confirmed,
                   replies, rude, dropped, twice, early, mixed>>

(* RejectButtonHandler *)
RejectHardware ==
    /\ Free /\ Top = "hardware" /\ ~checked
    /\ Send([NoAnswer EXCEPT !.close = Len(stack) - 1], hardData)
    /\ UNCHANGED <<serviceVars, id, dataVars, queue, viewVars, replies,
                   rude, dropped, twice, early, dangling, mixed>>

(* CloseCurrentViewHandler: a request that has just arrived is forgotten.   *)
CloseHardware ==
    /\ Free /\ Top = "hardware" /\ checked
    /\ CloseAbove(Len(stack) - 1)
    /\ dropped' = dropped \cup ({id} \ {Idle})
    /\ UNCHANGED <<serviceVars, id, queue, checked, answer, replies,
                   rude, twice, stray, dangling>>

(* Mutant: the id stays with the request that was answered. *)
KeptId == id

(* BasicHandlerFunc ends every request that is pending. *)
AfterAnswer == Idle

(* BasicHandlerFunc, after SendEApduResponse has slept; the result page; the *)
(* closing of the view.  An answer that names no request is not recorded.   *)
AnswerSent ==
    /\ answer.sending
    /\ replies' = IF answer.to = Idle THEN replies
                  ELSE Append(replies, [to |-> answer.to, for |-> answer.to,
                                        data |-> answer.data, seen |-> answer.seen])
    /\ id' = AfterAnswer
    /\ IF answer.page THEN PostResult ELSE UNCHANGED queue
    /\ answer' = NoAnswer
    /\ CloseAbove(IF answer.close = 0 THEN Len(stack) ELSE answer.close)
    /\ UNCHANGED <<serviceVars, checked, rude, dropped, stray, twice, dangling>>

(* The user, or the countdown, leaves the page of a result or of a QR code. *)
GoHome ==
    /\ Free /\ Top \in {"transport", "qr"} /\ CloseAbove(1)
    /\ UNCHANGED <<serviceVars, id, queue, checked, answer, replies,
                   rude, dropped, stray, twice, dangling>>

(* Unlocking into another wallet closes whatever is open, without an answer. *)
OtherWallet ==
    /\ Free /\ Top = "detail" /\ confirmed = Freed /\ CloseAbove(1)
    /\ dropped' = dropped \cup ({id} \ {Idle})
    /\ UNCHANGED <<serviceVars, id, queue, checked, answer, replies,
                   rude, twice, stray, dangling>>

(* GuiTransactionUsbPullout, GuiKeyDeriveUsbPullout, and OpenUsb when the   *)
(* cable is back.  That takes long enough for the tasks to catch up.        *)
Replug ==
    /\ Free /\ At("idle") /\ messages = <<>> /\ parses = <<>> /\ id # Idle
    /\ CloseAbove(IF Top \in {"detail", "hardware"} THEN 1 ELSE Len(stack))
    /\ dropped' = dropped \cup {id} /\ id' = Idle
    /\ UNCHANGED <<serviceVars, queue, checked, answer, replies,
                   rude, twice, stray, dangling>>

(* Nothing is left to do, or a view has become its own predecessor. *)
Finished ==
    /\ ~answer.sending /\ At("idle")
    /\ \/ twice # {}
       \/ /\ Len(kinds) = MaxRequests /\ Top = "home"
          /\ messages = <<>> /\ parses = <<>>
    /\ UNCHANGED vars

DataParser ==
    \/ ParseFails \/ HandleHardwareCall \/ HandleNormalCall \/ ViewTypeUnsupported
    \/ SetData \/ CheckPasses \/ CheckFails \/ RefusalSent
HandleMessage == HandleResult \/ HandleNext \/ HandleDetail \/ HandleHardware
Decision ==
    \/ Confirm \/ VerifyPass \/ VerifyFail \/ Reject
    \/ ApproveHardware \/ RejectHardware \/ CloseHardware

Next ==
    \/ \E kind \in Kinds : Receive(kind)
    \/ DataParser \/ HandleMessage \/ ModelParseTransaction \/ Parsed
    \/ Decision \/ AnswerSent
    \/ GoHome \/ OtherWallet \/ Replug \/ Finished

(* The tasks run, and an answer takes the time its packets take; nothing is  *)
(* asked of the user or of the host.                                        *)
Fairness ==
    /\ WF_vars(DataParser) /\ WF_vars(HandleMessage) /\ WF_vars(AnswerSent)
    /\ WF_vars(ModelParseTransaction) /\ WF_vars(Parsed)

Spec == Init /\ [][Next]_vars /\ Fairness

-----------------------------------------------------------------------------
(* Properties.                                                              *)

TypeOK ==
    /\ kinds \in Seq(Kinds) /\ Len(kinds) <= MaxRequests
    /\ {id, call.req, call.to, urData, hardData, response, shown, confirmed,
        answer.to, answer.data, answer.seen} \subseteq 0..Len(kinds)
    /\ call.at \in {"idle", "begun", "allowed", "set", "refusing"}
    /\ messages \in Seq(Messages) /\ Len(messages) <= UiQueue
    /\ stack \in Seq(Views) /\ stack # <<>> /\ stack[1] = "home"
    /\ parses \in Seq({Asked} \cup 0..Len(kinds))
    /\ {checked, rude, early, dangling, lost, mixed,
        call.page, answer.sending, answer.page} \subseteq BOOLEAN
    /\ twice \subseteq Views /\ dropped \subseteq Requests

(* The host waits for an answer before it asks again, and no view answers a  *)
(* request that came while it was still open for an older one.              *)
Orderly == ~rude /\ ~stray

(* What is signed was on the display when the password was given, and the   *)
(* answer names the request it was made for: three globals and a display    *)
(* that five steps of three tasks fill agree, unless the data were set      *)
(* under a parse of the request before, or the closing of its view freed    *)
(* them; nothing freed is signed otherwise.                                 *)
SignedIsSeen ==
    Orderly /\ ~mixed => \A i \in DOMAIN replies :
        replies[i].data # 0 \/ replies[i].seen # 0 =>
            replies[i].data = replies[i].seen /\ replies[i].data = replies[i].to

(* No request is answered twice, whatever the two tasks that answer do, and  *)
(* also if the cable is pulled out or another wallet is unlocked in between. *)
AnsweredOnce ==
    Orderly => \A i, j \in DOMAIN replies :
        replies[i].to = replies[j].to /\ replies[i].to # Idle => i = j

(* The connection view never answers from a response that was freed under   *)
(* it, unless it is closed while the message that opens it is on the way.   *)
ResponseAlive == Orderly /\ ~early => ~dangling

(* A request that got hold of the device is never stuck between the tasks:  *)
(* it is answered, or a view that shows it waits for the user, unless a     *)
(* queue was full, the cable was pulled, its view closed by another hand,   *)
(* its data mixed with those of the request before, or the page of a result *)
(* opened twice.                                                            *)
Answered(r) == \E i \in DOMAIN replies : replies[i].to = r
AwaitsUser(r) ==
    \/ IsOpen("detail") /\ shown = r
    \/ IsOpen("hardware") /\ response = r
NeverStuck ==
    \A r \in Requests :
        (id = r) ~> (\/ Answered(r) \/ AwaitsUser(r) \/ r \in dropped
                     \/ lost \/ mixed \/ twice \ {"detail"} # {} \/ early \/ ~Orderly)
=============================================================================
