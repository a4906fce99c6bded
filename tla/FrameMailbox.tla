---------------------------- MODULE FrameMailbox ----------------------------
(***************************************************************************)
(* What the frame channel promises a reader (include/chers/client.h): each *)
(* successful read shows one whole published frame, newer than the last    *)
(* one this connection has read; frames in between may be skipped.         *)
(***************************************************************************)
EXTENDS Naturals

CONSTANT MaxFrames      \* bound on the frames published

VARIABLES published,    \* the number of the newest frame
          shown         \* the number of the frame last read, 0 before the first

mailboxVars == <<published, shown>>

MailboxInit == published = 0 /\ shown = 0

Publish ==
    /\ published < MaxFrames
    /\ published' = published + 1
    /\ UNCHANGED shown

Read ==
    /\ shown' \in (shown + 1)..published
    /\ UNCHANGED published

(* A new connection starts over. *)
Reconnect == shown' = 0 /\ UNCHANGED published

MailboxNext == Publish \/ Read \/ Reconnect

MailboxSpec == MailboxInit /\ [][MailboxNext]_mailboxVars
=============================================================================
