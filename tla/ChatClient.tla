----------------------------- MODULE ChatClient -----------------------------
(***************************************************************************)
(* The chat of the browser (AIChat.jsx): the conversations, the one shown, *)
(* and the reader of each answer's frames.  The frames come in the order   *)
(* RequestLifecycle sends them; the connection may break between any two.  *)
(*                                                                         *)
(* A reader knows nothing of conversations: whatever it has to say it says *)
(* of the last message of the conversation shown at that moment.  React's  *)
(* updates and the effect that copies `messages` into `chats` are one step *)
(* with what causes them, so `messages` is the conversation shown.         *)
(*                                                                         *)
(* Left out: the attached file, what a bubble shows besides its text.      *)
(***************************************************************************)
EXTENDS Integers, FiniteSets, Sequences, SequencesExt

CONSTANTS
  MaxChats,  \* bound: conversations ever opened
  MaxSends,  \* bound: messages sent
  MaxMoves,  \* bound: conversations opened, shown or deleted
  MaxPieces  \* bound: token frames of an answer

ASSUME ChatAssumption ==
  MaxChats \in Nat \ {0} /\ MaxSends \in Nat /\ MaxMoves \in Nat /\ MaxPieces \in Nat

Sends == 1..MaxSends
NoStream == 0

VARIABLES
  chats,      \* the open conversations, each its messages, newest first
  current,    \* currentChatId
  loading,    \* isLoading: waiting for the first frame
  controller, \* abortControllerRef: the stream the stop button ends
  stream,     \* per send: its reader, what it has added, read and been told
  moves,
  pending,    \* a message the guard has warned of waits for its sender
  crossed     \* history: something was sent, or another conversation shown,
              \* beside a stream

chatVars == <<chats, current, loading, controller, stream, moves, pending, crossed>>

Ids == 1..MaxChats
NoReader == [pc |-> "idle", bubble |-> FALSE, got |-> 0, aborted |-> FALSE, end |-> "no"]

Said(role, s) == [role |-> role, of |-> s, text |-> <<>>, streaming |-> FALSE, kind |-> "text"]
Greeting  == Said("assistant", NoStream)
Bubble(s) == [Said("assistant", s) EXCEPT !.streaming = TRUE]
Marked(s, kind) == [Said("assistant", s) EXCEPT !.kind = kind]

CurrentAt == CHOOSE i \in DOMAIN chats : chats[i].id = current
Messages == chats[CurrentAt].messages

\* setMessages, and the effect that follows it.
Show(ms) == chats' = [chats EXCEPT ![CurrentAt].messages = ms]
ShowLast(m) == Show(Append(Front(Messages), m))

\* isActive: the composer is locked, and its button says stop.
Active == loading \/ \E i \in DOMAIN Messages : Messages[i].streaming
Alive(s) == stream[s].pc \in {"fetch", "reading"}
Beside == crossed' = (crossed \/ \E s \in Sends : Alive(s))

MessageType ==
  [role : {"user", "assistant"}, of : {NoStream} \union Sends, text : Seq(Sends),
   streaming : BOOLEAN, kind : {"text", "error", "cancelled"}]

ChatType == [id : Ids, messages : Seq(MessageType)]
ReaderType ==
  [pc : {"idle", "fetch", "reading", "over"}, bubble : BOOLEAN,
   got : 0..MaxPieces, aborted : BOOLEAN,
   end : {"no", "done", "error", "refused", "cancelled", "broken", "silent"}]

ChatTypeOK ==
  /\ chats \in Seq(ChatType) /\ \A i \in DOMAIN chats : chats[i].messages # <<>>
  /\ current \in {chats[i].id : i \in DOMAIN chats}
  /\ loading \in BOOLEAN /\ pending \in BOOLEAN /\ crossed \in BOOLEAN
  /\ controller \in {NoStream} \union Sends /\ moves \in 0..MaxMoves
  /\ stream \in [Sends -> ReaderType]

ChatInit ==
  /\ chats = <<[id |-> 1, messages |-> <<Greeting>>]>> /\ current = 1
  /\ loading = FALSE /\ controller = NoStream /\ pending = FALSE /\ crossed = FALSE /\ moves = 0
  /\ stream = [s \in Sends |-> NoReader]

-----------------------------------------------------------------------------
\* _doSend, up to the call of fetch.
StartSend(s) ==
  /\ stream[s].pc = "idle" /\ \A t \in Sends : t < s => stream[t].pc # "idle"
  /\ Show(Append(Messages, Said("user", s)))
  /\ stream' = [stream EXCEPT ![s].pc = "fetch"]
  /\ loading' = TRUE /\ controller' = s
  /\ Beside

\* handleSend: the guard passes the message, warns of it or refuses it.
Send(s) ==
  /\ ~Active /\ ~pending
  /\ \/ StartSend(s) /\ UNCHANGED pending
     \/ pending' = TRUE /\ UNCHANGED <<chats, stream, loading, controller, crossed>>
  /\ UNCHANGED <<current, moves>>

\* The dialog covers the page, so nothing else is clicked meanwhile.
Confirm(s) ==
  /\ pending /\ pending' = FALSE
  /\ StartSend(s)
  /\ UNCHANGED <<current, moves>>

Dismiss ==
  /\ pending /\ pending' = FALSE
  /\ UNCHANGED <<chats, current, loading, controller, stream, moves, crossed>>

-----------------------------------------------------------------------------
\* The reader of one answer.

\* The finally block, whichever stream it is of.
Settle(s, end) ==
  /\ stream' = [stream EXCEPT ![s].pc = "over",
                              ![s].end = IF end = "silent" /\ @ # "no" THEN @ ELSE end]
  /\ loading' = FALSE /\ controller' = NoStream
  /\ UNCHANGED <<current, moves, pending, crossed>>

\* An HTTP error: a refused message is taken out again.
Refused(s) ==
  /\ stream[s].pc = "fetch"
  /\ \E stripUser \in BOOLEAN :
       Show(Append(IF stripUser /\ Last(Messages).role = "user" THEN Front(Messages)
                   ELSE Messages, Marked(s, "error")))
  /\ Settle(s, "refused")

Accepted(s) ==
  /\ stream[s].pc = "fetch"
  /\ stream' = [stream EXCEPT ![s].pc = "reading"]
  /\ UNCHANGED <<chats, current, loading, controller, moves, pending, crossed>>

\* The first frame says "thinking": addPlaceholder.
Thinking(s) ==
  /\ stream[s].pc = "reading" /\ ~stream[s].bubble
  /\ Show(Append(Messages, Bubble(s)))
  /\ stream' = [stream EXCEPT ![s].bubble = TRUE]
  /\ loading' = FALSE
  /\ UNCHANGED <<current, controller, moves, pending, crossed>>

\* A frame with text.
Piece(s) ==
  /\ stream[s].pc = "reading" /\ stream[s].bubble
  /\ stream[s].end = "no" /\ stream[s].got < MaxPieces
  /\ ShowLast([Last(Messages) EXCEPT !.text = Append(@, s)])
  /\ stream' = [stream EXCEPT ![s].got = @ + 1]
  /\ UNCHANGED <<current, loading, controller, moves, pending, crossed>>

\* Mutant: the final frame fills in its details and leaves the cursor blinking.
SealedStreaming(m) == [m EXCEPT !.kind = "text"]

Sealed(m) == [m EXCEPT !.streaming = FALSE]

\* The frame with done = true.  It frees the composer while the reader goes on
\* to the end of the body, which the server delays until it has stored the status.
Done(s) ==
  /\ stream[s].pc = "reading" /\ stream[s].bubble /\ stream[s].end = "no"
  /\ ShowLast(Sealed(Last(Messages)))
  /\ stream' = [stream EXCEPT ![s].end = "done"]
  /\ UNCHANGED <<current, loading, controller, moves, pending, crossed>>

\* An error frame takes the bubble's place, its text with it.  One follows even
\* the frame with done = true when the status could not be stored.
ErrorFrame(s) ==
  /\ stream[s].pc = "reading" /\ stream[s].bubble
  /\ ShowLast([Sealed(Last(Messages)) EXCEPT !.text = <<>>, !.kind = "error"])
  /\ Settle(s, "error")

\* The body ends.
End(s) ==
  /\ stream[s].pc = "reading" /\ stream[s].bubble
  /\ Settle(s, "silent")
  /\ UNCHANGED chats

\* The connection breaks: a bubble of its own says so.
Break(s) ==
  /\ Alive(s)
  /\ Show(Append(Messages, Marked(s, "error")))
  /\ Settle(s, "broken")

\* The stop button.
StopAnswer ==
  /\ Active /\ ~pending /\ controller # NoStream
  /\ stream' = [stream EXCEPT ![controller].aborted = TRUE]
  /\ UNCHANGED <<chats, current, loading, controller, moves, pending, crossed>>

\* The read that was stopped raises AbortError.
Cancelled(s) ==
  /\ Alive(s) /\ stream[s].aborted
  /\ IF Last(Messages).role = "assistant" /\ Last(Messages).streaming
       THEN ShowLast([Sealed(Last(Messages)) EXCEPT !.kind = "cancelled"])
       ELSE Show(Append(Messages, Marked(s, "cancelled")))
  /\ Settle(s, "cancelled")

-----------------------------------------------------------------------------
\* Conversations.  An id is a time; here it is the next number.

Move == moves < MaxMoves /\ moves' = moves + 1
Opened == Max({1} \union {chats[i].id : i \in DOMAIN chats})

CreateNewChat ==
  /\ ~pending /\ Move /\ Opened < MaxChats
  /\ chats' = <<[id |-> Opened + 1, messages |-> <<Greeting>>]>> \o chats
  /\ current' = Opened + 1
  /\ Beside
  /\ UNCHANGED <<loading, controller, stream, pending>>

SelectChat ==
  /\ ~pending /\ Move
  /\ \E i \in DOMAIN chats : chats[i].id # current /\ current' = chats[i].id
  /\ Beside
  /\ UNCHANGED <<chats, loading, controller, stream, pending>>

\* The last one is replaced by a new one; the one shown, by the first left.
DeleteChat ==
  /\ ~pending /\ Move
  /\ \E i \in DOMAIN chats :
       LET left == RemoveAt(chats, i) IN
       IF left # <<>>
         THEN /\ chats' = left
              /\ current' = IF chats[i].id = current THEN left[1].id ELSE current
         ELSE /\ Opened < MaxChats
              /\ chats' = <<[id |-> Opened + 1, messages |-> <<Greeting>>]>>
              /\ current' = Opened + 1
  /\ Beside
  /\ UNCHANGED <<loading, controller, stream, pending>>

ChatNext ==
  \/ \E s \in Sends :
       \/ Send(s) \/ Confirm(s)
       \/ Refused(s) \/ Accepted(s) \/ Thinking(s) \/ Piece(s) \/ Done(s)
       \/ ErrorFrame(s) \/ End(s) \/ Break(s) \/ Cancelled(s)
  \/ Dismiss \/ StopAnswer \/ CreateNewChat \/ SelectChat \/ DeleteChat

ChatSpec == ChatInit /\ [][ChatNext]_chatVars

-----------------------------------------------------------------------------
\* What the answer to s should look like while and after it is read.
Whole(s) == [text |-> [i \in 1..stream[s].got |-> s], streaming |-> stream[s].end = "no"]
Looks(m, s) == m.of = s /\ m.role = "assistant" /\ [text |-> m.text, streaming |-> m.streaming] = Whole(s)

\* As long as the user neither leaves the conversation nor sends beside a stream
\* (a finished one may still be open): an answer grows in the last
\* bubble and in no other, an answer that was finished stays whole whatever is
\* sent after it, the stop button belongs to the one stream there is, and once
\* that has ended in a way it was told of the composer is free again.
AnswerInPlace ==
  ~crossed =>
    /\ \A s \in Sends :
         /\ Alive(s) => controller = s /\ \A t \in Sends : Alive(t) => t = s
         /\ stream[s].pc = "reading" /\ stream[s].bubble => Looks(Last(Messages), s)
         /\ stream[s].pc = "over" /\ stream[s].end = "done" =>
              \A i \in DOMAIN chats : \A j \in DOMAIN chats[i].messages :
                LET m == chats[i].messages[j] IN
                s \in ToSet(m.text) \/ (m.of = s /\ m.role = "assistant") => Looks(m, s)
    /\ (\A s \in Sends : ~Alive(s) /\ stream[s].end \notin {"broken", "silent"}) => ~Active

=============================================================================
