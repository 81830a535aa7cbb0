----------------------------- MODULE ScanQueue -----------------------------
(***************************************************************************)
(* What the keyboard driver's buffer promises: a first-in first-out queue  *)
(* of scan codes that drops what arrives when it is full.                  *)
(***************************************************************************)
EXTENDS Naturals, Sequences

CONSTANTS Size,     \* the codes it holds
          Codes,    \* the bytes the keyboard controller delivers
          NoCode    \* no code read yet

VARIABLES queue,    \* the codes accepted and not read, oldest first
          code      \* the code read last

queueVars == <<queue, code>>

QueueInit == queue = <<>> /\ code = NoCode

\* A code arrives from the controller.
Put(c) ==
  /\ queue' = IF Len(queue) < Size THEN Append(queue, c) ELSE queue
  /\ code'  = code

\* The terminal task reads the oldest code.
Get ==
  /\ queue # <<>>
  /\ code'  = Head(queue)
  /\ queue' = Tail(queue)

QueueNext == Get \/ \E c \in Codes : Put(c)

QueueSpec == QueueInit /\ [][QueueNext]_queueVars
=============================================================================
