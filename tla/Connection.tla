----------------------------- MODULE Connection -----------------------------
(***************************************************************************)
(* The events of one stream connection (bsd/connection.cc): a worker picks *)
(* it, waits in select, reads and writes the socket and calls the          *)
(* dispatcher, while the application calls the library on it, the thread   *)
(* that creates it may not be done, and the peer does what it likes.       *)
(*                                                                         *)
(* One worker at a time serves a connection (Object, OneWorkerEach).  Its  *)
(* buffers keep the promise of Parcels, so a buffer is its number of       *)
(* bytes.  connection::mx is held while the worker receives or sends.      *)
(***************************************************************************)
EXTENDS Integers, FiniteSets

CONSTANTS
    Incoming,   \* the bytes the peer sends (bound)
    Outgoing,   \* the bytes the application writes (bound)
    Burst,      \* how many fit in the buffer of on_write (4096 in the code)
    AcceptedBlock,  \* does an accepted socket block (it does on Linux, not on
                    \* the BSDs: nothing makes it non-blocking)?
    Mishaps,    \* what may go wrong, among:
                \* "early": a worker serves it before its creation is over,
                \* "short": send takes a part of what is offered, or nothing,
                \* "reset": a connection that was up fails
    None        \* no event

ASSUME ConnectionAssumption ==
    /\ Incoming \in Nat /\ Outgoing \in Nat /\ Burst \in Nat \ {0}
    /\ AcceptedBlock \in BOOLEAN
    /\ Mishaps \subseteq {"early", "short", "reset"}
    /\ None \notin {"accept", "connect", "refuse", "read", "write", "close"}

VARIABLES
    origin,     \* "connected" (rascal_connect) or "accepted" (on_read of a listener)
    maker,      \* its creation: "made", "called" (connect) or "done"
    mode,       \* connection::mode: "normal" or "connect"
    cancelled,  \* object::cancelled
    rd, wr,     \* the bytes in its buffers
    fresh,      \* are bytes in rd that came after the last rop_read?
    pc,         \* the next step of the worker that serves it, or "idle"
    doing,      \* "read" in on_read, "write" in on_write
    ready,      \* what it asks select for, and then has left to do
    found,      \* which locals of the call are true: success, closed, or failed
                \* (the loop ended with an error)
    heard,      \* the events the dispatcher was told of; "refuse" is a
                \* rop_connect with an error
    sock,       \* the socket: "new", "trying", "up" or "refused"
    ended,      \* what the peer did: "open", "closed" or "reset"
    arrived,    \* the bytes that can be received
    sent,       \* the bytes the socket took
    told,       \* how many of these at the last rop_write
    came, written,  \* all the bytes that came and that were written
    happened    \* the mishaps so far

work == <<pc, doing, ready, found>>
peer == <<sock, ended, arrived, came>>
state == <<origin, maker, mode, cancelled>>
data == <<rd, wr, fresh, sent, told, written>>
vars == <<state, data, work, peer, heard, happened>>

Least(a, b) == IF a < b THEN a ELSE b

\* The dispatcher hears the id with the events that carry no error.
Known == maker = "done" \/ heard \cap {"accept", "connect", "read", "write"} # {}
MayLock == pc \notin {"recv", "send"}
Over == cancelled /\ pc = "idle"

Init ==
    /\ origin \in {"connected", "accepted"}
    /\ maker = "made" /\ mode = "normal" /\ cancelled = FALSE
    /\ rd = 0 /\ wr = 0 /\ fresh = FALSE
    /\ pc = "idle" /\ doing = "read" /\ ready = {} /\ found = {}
    /\ heard = {}
    /\ sock = IF origin = "accepted" THEN "up" ELSE "new"
    /\ ended = "open" /\ arrived = 0 /\ sent = 0 /\ told = 0
    /\ came = 0 /\ written = 0
    /\ happened = {}

-----------------------------------------------------------------------------
\* The thread that creates it: connect(), which is in progress when it
\* returns, or has found the peer at once ...
Connect ==
    /\ origin = "connected" /\ maker = "made"
    /\ sock' \in {"trying", "up"}
    /\ maker' = "called"
    /\ UNCHANGED <<origin, mode, cancelled, data, work, ended, arrived, came, heard, happened>>

\* ... and only then the mode.
Connecting ==
    /\ maker = "called"
    /\ mode' = "connect"
    /\ maker' = "done"
    /\ UNCHANGED <<origin, cancelled, data, work, peer, heard, happened>>

\* Or the worker of the listener, which has just made the object.
Accepted ==
    /\ origin = "accepted" /\ maker = "made"
    /\ heard' = heard \cup {"accept"}
    /\ maker' = "done"
    /\ UNCHANGED <<origin, mode, cancelled, data, work, peer, happened>>

-----------------------------------------------------------------------------
\* The application, in a handler or in a thread of its own.
Write ==
    /\ Known /\ MayLock /\ ~Over
    /\ written < Outgoing
    /\ written' = written + 1
    /\ wr' = wr + 1
    /\ UNCHANGED <<state, rd, fresh, sent, told, work, peer, heard, happened>>

Read ==
    /\ Known /\ MayLock /\ ~Over
    /\ rd > 0
    /\ rd' \in 0..rd - 1
    /\ UNCHANGED <<state, wr, fresh, sent, told, written, work, peer, heard, happened>>

Cancel ==
    /\ Known /\ ~cancelled
    /\ cancelled' = TRUE
    /\ UNCHANGED <<origin, maker, mode, data, work, peer, heard, happened>>

-----------------------------------------------------------------------------
\* The peer, through the socket.
Answer ==
    /\ sock = "trying"
    /\ sock' \in {"up", "refused"}
    /\ UNCHANGED <<state, data, work, ended, arrived, came, heard, happened>>

Arrive ==
    /\ sock = "up" /\ ended = "open" /\ came < Incoming
    /\ arrived' = arrived + 1 /\ came' = came + 1
    /\ UNCHANGED <<state, data, work, sock, ended, heard, happened>>

\* The peer closes its side, or resets the connection, which it may do after
\* it has closed its side: what is sent then fails.
HangUp ==
    /\ sock = "up"
    /\ \/ /\ ended = "open" /\ ended' = "closed"
          /\ UNCHANGED happened
       \/ /\ ended # "reset" /\ "reset" \in Mishaps
          /\ ended' = "reset" /\ happened' = happened \cup {"reset"}
    /\ UNCHANGED <<state, data, work, sock, arrived, came, heard>>

-----------------------------------------------------------------------------
\* connection::filter takes the connection ...
Pick ==
    /\ pc = "idle" /\ ~cancelled
    /\ \/ maker = "done" /\ UNCHANGED happened
       \/ /\ maker # "done" /\ "early" \in Mishaps
          /\ happened' = happened \cup {"early"}
    /\ pc' = "pulse"
    /\ UNCHANGED <<state, data, doing, ready, found, peer, heard>>

\* Mutant of NeedToWrite: only connections in progress are asked about.
NeedToConnect == mode = "connect"

NeedToWrite == mode = "connect" \/ wr > 0

Ask == {"read"} \cup (IF NeedToWrite THEN {"write"} ELSE {})

\* ... on_pulse finds nothing wrong, the descriptor sets are made ...
Pulse ==
    /\ pc = "pulse"
    /\ ready' = Ask
    /\ pc' = "select"
    /\ UNCHANGED <<state, data, doing, found, peer, heard, happened>>

\* ... or connecting took too long (RO_CONN_TIMEOUT seconds).
TimeOut ==
    /\ pc = "pulse" /\ mode = "connect"
    /\ heard' = heard \cup {"close"}
    /\ cancelled' = TRUE
    /\ ready' = Ask
    /\ pc' = "select"
    /\ UNCHANGED <<origin, maker, mode, data, doing, found, peer, happened>>

Readable == arrived > 0 \/ ended # "open" \/ sock \in {"new", "refused"}

\* select, for 100 ms at most: a busy socket has no room for more data.
Select(busy) ==
    /\ pc = "select"
    /\ ready' = {e \in ready : IF e = "read" THEN Readable ELSE sock # "trying" /\ ~busy}
    /\ pc' = "round"
    /\ UNCHANGED <<state, data, doing, found, peer, heard, happened>>

\* Mutant of Begin: the locals keep the values of the last call.
BeginAgain(e) ==
    /\ pc = "round"
    /\ e \in ready /\ (e = "write" => "read" \notin ready)
    /\ ready' = ready \ {e}
    /\ IF cancelled THEN UNCHANGED <<pc, doing>>
       ELSE pc' = (IF e = "read" THEN "recv" ELSE "send") /\ doing' = e
    /\ UNCHANGED <<state, data, found, peer, heard, happened>>

\* on_read, then on_write, unless it is cancelled by then.
Begin(e) ==
    /\ pc = "round"
    /\ e \in ready /\ (e = "write" => "read" \notin ready)
    /\ ready' = ready \ {e}
    /\ IF cancelled THEN UNCHANGED <<pc, doing>>
       ELSE pc' = (IF e = "read" THEN "recv" ELSE "send") /\ doing' = e
    /\ found' = {}
    /\ UNCHANGED <<state, data, peer, heard, happened>>

\* selected = false.
Deselect ==
    /\ pc = "round" /\ ready = {}
    /\ pc' = "idle"
    /\ UNCHANGED <<state, data, doing, ready, found, peer, heard, happened>>

-----------------------------------------------------------------------------
\* The loop of on_read, under mx: as much as there is, until the socket has
\* no more, or fails, or was closed.
Receive ==
    /\ pc = "recv"
    /\ \E k \in 1..arrived : arrived' = arrived - k /\ rd' = rd + k
    /\ fresh' = TRUE
    /\ found' = {"success"}
    /\ UNCHANGED <<state, wr, sent, told, written, pc, doing, ready, sock, ended, came,
                   heard, happened>>

Blocks == AcceptedBlock /\ origin = "accepted" /\ ended = "open"

\* Mutant of Received: that recv returned 0 is not noticed.
ReceivedNothing ==
    /\ pc = "recv" /\ arrived = 0 /\ ~Blocks
    /\ found' = found \cup
          (IF sock \in {"new", "refused"} \/ ended = "reset" THEN {"failed"} ELSE {})
    /\ pc' = "error"
    /\ UNCHANGED <<state, data, doing, ready, peer, heard, happened>>

Received ==
    /\ pc = "recv" /\ arrived = 0 /\ ~Blocks
    /\ found' = found \cup
          (IF sock \in {"new", "refused"} \/ ended = "reset" THEN {"failed"}
           ELSE IF ended = "closed" THEN {"closed"} ELSE {})
    /\ pc' = "error"
    /\ UNCHANGED <<state, data, doing, ready, peer, heard, happened>>

\* The loop of on_write, under mx: send what peek finds and remove it,
\* whatever part of it the socket took.
Send ==
    LET size == Least(Burst, wr) IN
    /\ pc = "send" /\ wr > 0
    /\ sock = "up" /\ ended # "reset"
    /\ \/ sent' = sent + size /\ UNCHANGED happened
       \/ /\ "short" \in Mishaps
          /\ sent' \in sent..sent + size - 1
          /\ happened' = happened \cup {"short"}
    /\ wr' = wr - size
    /\ found' = {"success"}
    /\ UNCHANGED <<state, rd, fresh, told, written, pc, doing, ready, peer, heard>>

\* Mutant of Sent: what was not sent is removed too.
SentAway ==
    /\ pc = "send"
    /\ wr > 0 => sock = "refused" \/ ended = "reset"
    /\ wr' = wr - Least(Burst, wr)
    /\ found' = found \cup (IF wr > 0 THEN {"failed"} ELSE {})
    /\ pc' = "error"
    /\ UNCHANGED <<state, rd, fresh, sent, told, written, doing, ready, peer, heard, happened>>

\* Nothing is left, or the socket failed.
Sent ==
    /\ pc = "send"
    /\ wr > 0 => sock = "refused" \/ ended = "reset"
    /\ found' = found \cup (IF wr > 0 THEN {"failed"} ELSE {})
    /\ pc' = "error"
    /\ UNCHANGED <<state, data, doing, ready, peer, heard, happened>>

-----------------------------------------------------------------------------
\* The events of the call, in this order, mx left.
TellsConnect == mode = "connect" /\ (doing = "write" \/ "success" \in found)

\* Mutant of Telling: only on_write notices that the connection is up.
TellingLate ==
    IF pc = "error" /\ "failed" \in found THEN IF mode = "connect" THEN "refuse" ELSE "close"
    ELSE IF pc = "connect" /\ TellsConnect /\ doing = "write" THEN "connect"
    ELSE IF pc = "data" /\ "success" \in found THEN doing
    ELSE IF pc = "close" /\ "closed" \in found THEN "close"
    ELSE None

Telling ==
    IF pc = "error" /\ "failed" \in found THEN IF mode = "connect" THEN "refuse" ELSE "close"
    ELSE IF pc = "connect" /\ TellsConnect THEN "connect"
    ELSE IF pc = "data" /\ "success" \in found THEN doing
    ELSE IF pc = "close" /\ "closed" \in found THEN "close"
    ELSE None

Hear == heard' = heard \cup ({Telling} \ {None})

\* on_error: the dispatcher, then cancel.
TellError ==
    /\ pc = "error"
    /\ Hear
    /\ cancelled' = (cancelled \/ "failed" \in found)
    /\ pc' = "connect"
    /\ UNCHANGED <<origin, maker, mode, data, doing, ready, found, peer, happened>>

\* Mutants of TellConnect: the mode is not reset; rop_connect is all it tells.
TellConnectAgain ==
    /\ pc = "connect"
    /\ Hear
    /\ \/ pc' = "data" /\ UNCHANGED cancelled
       \/ TellsConnect /\ pc' = "round" /\ cancelled' = TRUE
    /\ UNCHANGED <<origin, maker, mode, data, doing, ready, found, peer, happened>>

TellConnectOnly ==
    /\ pc = "connect"
    /\ Hear
    /\ \/ /\ pc' = (IF TellsConnect THEN "round" ELSE "data")
          /\ mode' = (IF TellsConnect THEN "normal" ELSE mode)
          /\ UNCHANGED cancelled
       \/ TellsConnect /\ pc' = "round" /\ cancelled' = TRUE /\ UNCHANGED mode
    /\ UNCHANGED <<origin, maker, data, doing, ready, found, peer, happened>>

\* The dispatcher may decline the connection, which ends the call.
TellConnect ==
    /\ pc = "connect"
    /\ Hear
    /\ \/ /\ pc' = "data"
          /\ mode' = IF TellsConnect THEN "normal" ELSE mode
          /\ UNCHANGED cancelled
       \/ TellsConnect /\ pc' = "round" /\ cancelled' = TRUE /\ UNCHANGED mode
    /\ UNCHANGED <<origin, maker, data, doing, ready, found, peer, happened>>

\* rop_read or rop_write.
TellData ==
    /\ pc = "data"
    /\ Hear
    /\ fresh' = (fresh /\ Telling # "read")
    /\ told' = IF Telling = "write" THEN sent ELSE told
    /\ pc' = "close"
    /\ UNCHANGED <<state, rd, wr, sent, written, doing, ready, found, peer, happened>>

\* Mutant of TellClose: the connection is not cancelled.
TellCloseOnly ==
    /\ pc = "close"
    /\ Hear
    /\ pc' = "round"
    /\ UNCHANGED <<state, data, doing, ready, found, peer, happened>>

TellClose ==
    /\ pc = "close"
    /\ Hear
    /\ cancelled' = (cancelled \/ "closed" \in found)
    /\ pc' = "round"
    /\ UNCHANGED <<origin, maker, mode, data, doing, ready, found, peer, happened>>

-----------------------------------------------------------------------------
\* The connection is cancelled and no worker serves it: it will be deleted.
Ended == Over /\ maker = "done" /\ UNCHANGED vars

Make == Connect \/ Connecting \/ Accepted
Serve ==
    \/ Pick \/ Pulse \/ TimeOut \/ Select(TRUE) \/ Select(FALSE) \/ Begin("read") \/ Begin("write")
    \/ Deselect \/ Receive \/ Received \/ Send \/ Sent
    \/ TellError \/ TellConnect \/ TellData \/ TellClose
Next ==
    \/ Make \/ Serve
    \/ Write \/ Read \/ Cancel
    \/ Answer \/ Arrive \/ HangUp
    \/ Ended

Spec == Init /\ [][Next]_vars

\* Workers serve every connection for ever (connection.cc:353-359, 236-251),
\* handlers return, an attempt to connect that is not over times out, and a
\* socket is not busy for ever.
FairSpec ==
    /\ Spec
    /\ WF_vars(Make) /\ WF_vars(Serve)
    /\ SF_vars(TimeOut) /\ SF_vars(Select(FALSE))

-----------------------------------------------------------------------------
TypeOK ==
    /\ origin \in {"connected", "accepted"}
    /\ maker \in {"made", "called", "done"}
    /\ mode \in {"normal", "connect"}
    /\ cancelled \in BOOLEAN /\ fresh \in BOOLEAN
    /\ rd \in 0..Incoming /\ wr \in 0..Outgoing
    /\ pc \in {"idle", "pulse", "select", "round", "recv", "send",
               "error", "connect", "data", "close"}
    /\ doing \in {"read", "write"}
    /\ ready \subseteq {"read", "write"}
    /\ found \subseteq {"success", "closed", "failed"}
    /\ heard \subseteq {"accept", "connect", "refuse", "read", "write", "close"}
    /\ sock \in {"new", "trying", "up", "refused"}
    /\ ended \in {"open", "closed", "reset"}
    /\ arrived \in 0..Incoming /\ came \in 0..Incoming /\ written \in 0..Outgoing
    /\ sent \in 0..written /\ told \in 0..sent
    /\ happened \subseteq Mishaps

\* "For stream oriented connections, there is no limit on the size of the
\* data" of rascal_write (app.funcref.docbook:607), and rop_write says that
\* "a portion of data was successfully sent" (324): what was written is
\* either sent or still waits in the buffer.
WrittenIsKept == sent + wr = written

\* ... as far as the socket takes what it is offered (connection.cc:202-216).
KeptUnlessShort == "short" \notin happened => WrittenIsKept

\* rop_write says that something was sent since the last one
\* (connection.cc:215, 228-231).
WriteMeansSent == "short" \notin happened /\ Telling = "write" => sent > told

\* The application hears of data only when it has heard that the connection
\* exists (connection.cc:164-177, 219-231), unless a worker was too early.
IntroducedFirst ==
    "early" \notin happened /\ heard \cap {"read", "write"} # {} =>
        (IF origin = "accepted" THEN "accept" ELSE "connect") \in heard

\* "The connection attempt is finished" (app.funcref.docbook:292) is told
\* once, whoever finds out: on_read, on_write or on_error
\* (connection.cc:103, 165-172, 219-225).
AttemptEndsOnce ==
    "reset" \notin happened /\ Telling \in {"connect", "refuse"} =>
        heard \cap {"connect", "refuse"} = {}

\* "The connection is closed" (app.funcref.docbook:286) is the last event,
\* and so is a connection that was refused (connection.cc:97-109, 179-183).
NothingAfterClose ==
    "reset" \notin happened /\ heard \cap {"close", "refuse"} # {} =>
        Telling = None /\ pc # "pulse"

\* Whatever came is followed by a rop_read (connection.cc:160-177).
NewsAreTold == fresh => pc \in {"recv", "error", "connect", "data"} \/ cancelled

\* What the theorems of ConnectionProofs rest on, beside the invariants above.
Calls == {"recv", "send", "error", "connect", "data", "close"}

\* Nothing is sent or received that was not written or did not come.
Counts ==
    /\ sent + wr <= written
    /\ rd + arrived <= came
    /\ sock # "up" => came = 0

\* A connection is made before its mode is set, and told of after.
Making ==
    /\ mode = "connect" => maker = "done" /\ origin = "connected"
    /\ "connect" \in heard => maker = "done"
    /\ origin = "accepted" => sock = "up" /\ maker # "called"
    /\ origin = "accepted" /\ maker = "done" => "accept" \in heard
    /\ maker = "made" /\ origin = "connected" => sock = "new"
    /\ sock = "new" => maker = "made" /\ wr = 0 /\ heard \subseteq {"close"}
    /\ maker # "done" /\ pc # "idle" => "early" \in happened
    /\ ended = "reset" <=> "reset" \in happened
    /\ ended # "open" => sock = "up"

\* A call receives or sends; only a socket that is up is sent to.
Serving ==
    /\ pc = "recv" => doing = "read"
    /\ pc = "send" => doing = "write" /\ sock = "up"
    /\ pc = "select" => "read" \in ready
    /\ "write" \in ready /\ pc # "pulse" => sock # "new"
    /\ "write" \in ready /\ pc \notin {"pulse", "select"} => sock # "trying"
    /\ "write" \in ready /\ sock = "refused" =>
          \/ "read" \in ready \/ cancelled \/ pc \in {"pulse", "select", "recv"}
          \/ pc = "error" /\ doing = "read" /\ "failed" \in found

\* A call that failed has nothing else to tell, but for a reset.
Failing ==
    /\ pc \in Calls /\ "success" \in found => sock = "up"
    /\ pc \in {"recv", "send"} => found \subseteq {"success"}
    /\ pc \in Calls /\ "closed" \in found => doing = "read" /\ found \subseteq {"success", "closed"}
    /\ pc \in Calls /\ "failed" \in found /\ "reset" \notin happened =>
          found = {"failed"} /\ doing = "read"

SentThisCall ==
    "short" \notin happened /\ pc \in Calls \ {"close"} /\ doing = "write" /\ "success" \in found
        => sent > told

NewsOfThisCall ==
    fresh /\ ~cancelled =>
        pc \in {"recv", "error", "connect", "data"} /\ doing = "read" /\ "success" \in found

\* After the end the connection is cancelled and the call that found it has
\* nothing more to tell.
EndReached ==
    "reset" \notin happened /\ heard \cap {"close", "refuse"} # {} =>
        /\ cancelled
        /\ \/ pc \in {"idle", "select", "round"}
           \/ pc \in {"connect", "data", "close"} /\ found = {"failed"} /\ doing = "read"

\* After a rop_connect the mode is normal or the handler declined.
AttemptOver ==
    "connect" \in heard => mode = "normal" \/ (cancelled /\ pc \in {"idle", "round"})

Introduced ==
    /\ "early" \notin happened /\ origin = "connected" /\ maker = "done" /\ mode = "normal"
          => "connect" \in heard
    /\ "early" \notin happened /\ pc = "data" /\ "success" \in found => mode = "normal"

IInv ==
    /\ TypeOK /\ Counts /\ Making /\ Serving /\ Failing
    /\ KeptUnlessShort /\ SentThisCall /\ NewsOfThisCall
    /\ EndReached /\ AttemptOver /\ Introduced /\ IntroducedFirst

\* "More data is available in the incoming buffer" (app.funcref.docbook:310)
\* is told in the end of all data that came, until the connection is cancelled.
ArrivalsAreTold == arrived > 0 \/ fresh ~> (arrived = 0 /\ ~fresh) \/ cancelled

\* What is written leaves in the end (connection.cc:84-94, 187-217).
WritesLeave == wr > 0 ~> wr = 0 \/ cancelled

\* The peer's end of the connection is told in the end (connection.cc:147-
\* 158, 179-183).
EndIsTold == ended # "open" ~> cancelled
=============================================================================
