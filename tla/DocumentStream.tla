---------------------------- MODULE DocumentStream ----------------------------
(***************************************************************************)
(* The output stream of the native terminal document                       *)
(* (VT7.Native/surface.cpp, reached through VT7.Host/TerminalDocument.cs). *)
(* Every call belongs to the document's dispatcher thread, so each is one  *)
(* atomic action.  A chunk of output is its origin, the transport          *)
(* generation that produced it, and that producer's sequence number; what  *)
(* the parser makes of its bytes is left out except for the replies (a     *)
(* device report, say) that it queues for the origin.                      *)
(***************************************************************************)
EXTENDS Naturals, Sequences

CONSTANTS
    Origins,       \* producer generations whose output reaches the document
    MaxReplies     \* replies the document holds (64 in QueueReply)

ASSUME DocumentAssumption == MaxReplies \in Nat

VARIABLES
    streamGeneration,   \* document->streamGeneration
    streamActive,       \* document->streamActive
    producerSequences,  \* document->producerSequences, 0 when absent
    replies,            \* document->replies
    replySequence,      \* document->replySequence
    replyFailure,       \* FAILED(document->replyFailure)
    text                \* history: chunks parsed since the stream began

documentVars == <<streamGeneration, streamActive, producerSequences, replies,
                  replySequence, replyFailure, text>>

DocumentInit ==
    /\ streamGeneration = 1 /\ streamActive = TRUE
    /\ producerSequences = [o \in Origins |-> 0]
    /\ replies = <<>> /\ replySequence = 0 /\ replyFailure = FALSE
    /\ text = <<>>

\* BeginDocumentStream forgets the previous stream altogether.
BeginDocumentStream ==
    /\ streamGeneration' = streamGeneration + 1 /\ streamActive' = TRUE
    /\ producerSequences' = [o \in Origins |-> 0]
    /\ replies' = <<>> /\ replySequence' = 0 /\ replyFailure' = FALSE
    /\ text' = <<>>

\* The checks WriteDocumentStream makes before it touches the terminal.
WriteAcceptedAnyStream(generation, chunk) ==
    /\ streamActive
    /\ chunk.seq > producerSequences[chunk.origin]
WriteAccepted(generation, chunk) ==
    /\ streamActive /\ generation = streamGeneration
    /\ chunk.seq > producerSequences[chunk.origin]

\* QueueReply for each of the n replies the chunk's parsing asks for.
QueueReply(chunk, n) ==
    LET room == MaxReplies - Len(replies)
        kept == IF n <= room THEN n ELSE room
    IN  /\ replies' = replies \o
               [i \in 1..kept |-> [origin |-> chunk.origin, seq |-> replySequence + i]]
        /\ replySequence' = replySequence + kept
        /\ replyFailure' = (replyFailure \/ n > room)

\* WriteDocumentStream: the text is parsed, then a failure to queue a reply
\* is reported, before the producer's sequence is recorded.
Parse(chunk, n) ==
    /\ text' = Append(text, chunk)
    /\ QueueReply(chunk, n)
    /\ UNCHANGED <<streamGeneration, streamActive>>

WriteSucceeds(generation, chunk, n) ==
    /\ WriteAccepted(generation, chunk)
    /\ Parse(chunk, n)
    /\ ~replyFailure'
    /\ producerSequences' = [producerSequences EXCEPT ![chunk.origin] = chunk.seq]

WriteFails(generation, chunk, n) ==
    \/ /\ WriteAccepted(generation, chunk)
       /\ Parse(chunk, n)
       /\ replyFailure'
       /\ UNCHANGED producerSequences
    \/ UNCHANGED documentVars    \* refused, or the decoder or the parser threw

\* EndDocumentStream with eofKind 0; a pending UTF-8 fragment makes it fail
\* after the stream is ended.
EndDocumentStream(generation) ==
    /\ generation = streamGeneration
    /\ streamActive' = FALSE
    /\ UNCHANGED <<streamGeneration, producerSequences, replies, replySequence,
                   replyFailure, text>>

\* TerminalDocument.DrainReplies: VT7_ReadDocumentReply until it is empty.
DrainRepliesKept == UNCHANGED documentVars
DrainReplies ==
    /\ replies' = <<>>
    /\ UNCHANGED <<streamGeneration, streamActive, producerSequences,
                   replySequence, replyFailure, text>>

=============================================================================
