-------------------------------- MODULE Audio -------------------------------
(***************************************************************************)
(* audio.c: a ring of buffers the client writes and audio_callback hands   *)
(* to the audio interface (AI), which holds two and plays one after the    *)
(* other.  The callback runs from the AI's interrupt and at the end of     *)
(* every write.                                                            *)
(*                                                                         *)
(* A definition named X_... is X with a bug the code does not have.        *)
(***************************************************************************)
EXTENDS Integers, Sequences, FiniteSets, Cpu

CONSTANTS
    Sounds,         \* the chunks a client plays, silence among them
    Silence,
    Bits,           \* of buf_full: 32
    NUM_BUFFERS,
    Asked           \* numbers of buffers a client asks for

ASSUME AudioAssumption ==
    /\ Silence \in Sounds /\ Asked \subseteq Nat
    /\ Bits \in Nat /\ NUM_BUFFERS \in 2 .. Bits

VARIABLES
    buffers,                    \* NULL; an array of pointers not set up (garbage), set up
                                \* (silent), and with the ring reset (ready)
    _num_buf, now_playing, now_writing,
    buf_full,                   \* the set of buffers whose bit is set
    content,                    \* the chunk in each buffer
    AI,                         \* how many buffers the AI holds
    line, mask,                 \* its interrupt: raised; unmasked, with the handler registered
    chunk,                      \* audio_write: the client's chunk
    sent, astray                \* history: as in AudioQueue

audio == <<buffers, _num_buf, now_playing, now_writing, buf_full, content, AI, line,
           mask, chunk, sent, astray>>
ring == <<_num_buf, now_playing, now_writing, buf_full, content>>

AudioInit ==
    /\ buffers = "NULL" /\ _num_buf = NUM_BUFFERS /\ now_playing = 0 /\ now_writing = 0
    /\ buf_full = {} /\ content = [b \in 0 .. Bits - 1 |-> Silence]
    /\ AI = 0 /\ line = FALSE /\ mask = FALSE /\ chunk = Silence /\ astray = FALSE
    /\ sent = [chunk |-> CHOOSE c \in Sounds : TRUE, turn |-> FALSE]

After(b) == (b + 1) % _num_buf

-----------------------------------------------------------------------------
(* audio_callback, one buffer at a time.  Its caller has interrupts        *)
(* disabled, the handler by being one.                                     *)

Exists_NotAsked == TRUE
Exists == buffers # "NULL"

Full == AI = 2
Ready_Current == now_playing \in buf_full
Ready == After(now_playing) \in buf_full
MayFill == Exists /\ ~Full /\ Ready

\* Until audio_init is through, a pointer malloc left or a buffer of zeroes.
Noise == "noise"
Sound(b) == IF buffers = "ready" THEN content[b] ELSE Noise

Fill ==
    /\ MayFill
    /\ buf_full' = buf_full \ {After(now_playing)}
    /\ now_playing' = After(now_playing)
    /\ AI' = AI + 1
    /\ sent' = [chunk |-> Sound(now_playing'), turn |-> ~sent.turn]
    /\ UNCHANGED <<buffers, _num_buf, now_writing, content, mask, chunk, astray>>

\* The thread's part of the loop: in a write, before the chunk is in a
\* buffer and after.
WriteFills ==
    /\ pc \in {"wait", "written"} /\ ~ie
    /\ Fill
    /\ UNCHANGED <<pc, ie, line>>

\* __MI_handler acknowledges the interrupt and calls audio_callback.
MayInterrupt == ie /\ mask /\ line

\* The handler's place, by the thread's where it interrupts it.
Over == [idle |-> "idle+", array |-> "array+", setup |-> "setup+", reset |-> "reset+",
         wait |-> "wait+"]

AI_handler ==
    /\ MayInterrupt
    /\ line' = FALSE
    /\ ie' = FALSE
    /\ pc \in DOMAIN Over /\ pc' = Over[pc]
    /\ UNCHANGED <<ring, buffers, AI, mask, chunk, sent, astray>>

Interrupted == {Over[p] : p \in DOMAIN Over}

HandlerFills ==
    /\ pc \in Interrupted
    /\ Fill
    /\ UNCHANGED <<pc, ie, line>>

HandlerReturns ==
    /\ pc \in Interrupted /\ ~MayFill
    /\ \E p \in DOMAIN Over : pc = Over[p] /\ pc' = p
    /\ ie' = TRUE
    /\ UNCHANGED audio

-----------------------------------------------------------------------------
(* audio_init, by a client that has called audio_close before it opens     *)
(* again.  The handler is in place and unmasked before there are buffers   *)
(* and before the ring is reset; buf_full and now_playing are as the last  *)
(* session left them, and the AI may still be playing.                     *)

OpenAudio ==
    /\ Goto("idle", "array") /\ ie
    /\ buffers = "NULL"
    /\ mask' = TRUE
    /\ UNCHANGED <<ie, ring, buffers, AI, line, chunk, sent, astray>>

Number(asked) ==
    LET n == IF asked > Bits THEN Bits ELSE asked IN IF n > 1 THEN n ELSE NUM_BUFFERS

AllocateAudio ==
    /\ Goto("array", "setup") /\ ie
    /\ \E asked \in Asked : _num_buf' = Number(asked)
    /\ buffers' = "garbage"
    /\ UNCHANGED <<ie, now_playing, now_writing, buf_full, content, AI, line, mask,
                   chunk, sent, astray>>

\* The buffers, one after the other, and now_playing.
SetUpAudio ==
    /\ Goto("setup", "reset") /\ ie
    /\ buffers' = "silent"
    /\ content' = [b \in DOMAIN content |-> Silence]
    /\ now_playing' = 0
    /\ UNCHANGED <<ie, _num_buf, now_writing, buf_full, AI, line, mask, chunk, sent,
                   astray>>

\* now_writing, which the handler does not read, and buf_full.  If the handler has
\* moved now_playing on in the meantime, the two are apart from now on.
ResetAudio ==
    /\ Goto("reset", "idle") /\ ie
    /\ buffers' = "ready"
    /\ now_writing' = 0 /\ buf_full' = {}
    /\ astray' = (now_playing # 0)
    /\ UNCHANGED <<ie, _num_buf, now_playing, content, AI, line, mask, chunk, sent>>

\* audio_close; the AI plays on what it was given.
CloseAudio ==
    /\ pc = "idle" /\ ie
    /\ mask' = FALSE
    /\ buffers' = "NULL"
    /\ astray' = FALSE
    /\ UNCHANGED <<pc, ie, ring, AI, line, chunk, sent>>

-----------------------------------------------------------------------------
(* audio_write and audio_write_silence *)

BeginWrite ==
    /\ Goto("idle", "wait") /\ ie /\ buffers # "NULL"
    /\ disable_interrupts
    /\ chunk' \in Sounds
    /\ UNCHANGED <<buffers, ring, AI, line, mask, sent, astray>>

\* While the buffer is full: audio_callback, and a window for interrupts.
LetInterruptsIn ==
    /\ pc = "wait" /\ ~ie /\ After(now_writing) \in buf_full /\ ~MayFill
    /\ enable_interrupts
    /\ UNCHANGED <<pc, audio>>

KeepThemOut ==
    /\ pc = "wait" /\ ie
    /\ disable_interrupts
    /\ UNCHANGED <<pc, audio>>

Store ==
    /\ Goto("wait", "written") /\ ~ie
    /\ After(now_writing) \notin buf_full
    /\ buf_full' = buf_full \cup {After(now_writing)}
    /\ now_writing' = After(now_writing)
    /\ content' = [content EXCEPT ![now_writing'] = chunk]
    /\ UNCHANGED <<ie, buffers, _num_buf, now_playing, AI, line, mask, chunk, sent, astray>>

EndWrite ==
    /\ Goto("written", "idle") /\ ~MayFill
    /\ enable_interrupts
    /\ UNCHANGED audio

\* The AI has played a buffer.
Played ==
    /\ AI > 0
    /\ AI' = AI - 1
    /\ line' = TRUE
    /\ UNCHANGED <<pc, ie, buffers, ring, mask, chunk, sent, astray>>

AudioThread ==
    \/ OpenAudio \/ AllocateAudio \/ SetUpAudio \/ ResetAudio \/ CloseAudio
    \/ BeginWrite \/ WriteFills \/ LetInterruptsIn \/ KeepThemOut \/ Store \/ EndWrite
AudioHandler == AI_handler \/ HandlerFills \/ HandlerReturns

\* An interrupt that may be taken is taken before the thread's next step.
AudioNext == (~MayInterrupt /\ AudioThread) \/ AudioHandler \/ Played

\* The processor executes, the AI plays.
AudioFairness ==
    /\ WF_<<pc, ie, audio>>(AudioHandler \/ (pc # "idle" /\ ~MayInterrupt /\ AudioThread))
    /\ WF_<<pc, ie, audio>>(Played)

-----------------------------------------------------------------------------
(* Properties. *)

\* Every chunk written reaches the AI once and in the order written, unless
\* audio_close comes before, whatever number of buffers was asked for.  Nothing
\* else reaches it, but for one case: chunks still waited at a close and the AI
\* finishes a buffer while audio_init is under way (audio.c:223 to :241).  Then
\* at most as many pointers that are not set up reach it as chunks waited, and
\* if it is between :239 and :241, nothing is said of the session until the
\* next close.
Phase == CASE buffers = "NULL" -> "closed"
           [] buffers = "ready" -> "open"
           [] OTHER -> "opening"
Waiting ==
    IF buffers # "ready" \/ astray THEN <<>>
    ELSE [i \in 1 .. Cardinality(buf_full) |-> content[(now_playing + i) % _num_buf]]
Left == IF buffers = "ready" THEN 0 ELSE Cardinality(buf_full)
Astray == IF buffers = "silent" THEN now_playing # 0 ELSE astray
Queue == INSTANCE AudioQueue WITH
    Chunks <- Sounds, Capacity <- Bits, phase <- Phase, queue <- Waiting, left <- Left,
    astray <- Astray
QueueSpec == Queue!Spec

\* What was written reaches the AI as it plays on, though the client never
\* calls again (in a session that is not astray).
EveryChunkIsSent == \A t \in BOOLEAN :
    Waiting # <<>> /\ sent.turn = t ~> Waiting = <<>> \/ sent.turn # t
=============================================================================
