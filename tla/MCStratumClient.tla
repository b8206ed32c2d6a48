-------------------------- MODULE MCStratumClient ---------------------------
(***************************************************************************)
(* Small instances of StratumClient.  Version masks are made of one bit    *)
(* that may be rolled and one that may not.                                *)
(***************************************************************************)
EXTENDS StratumClient

CONSTANTS hi, lo

Message(method, validity, mask) == [method |-> method, validity |-> validity, mask |-> mask]

SubscribeMsg == Message("subscribe", "valid", NoMask)
AuthorizeMsg == Message("authorize", "valid", NoMask)
ConfigureMsg == Message("configure", "valid", {hi, lo})
SubmitMsg == Message("submit", "valid", {hi})

\* What a miner that pipelines its messages may send.
PipelinedMessages == {SubscribeMsg, AuthorizeMsg, ConfigureMsg, SubmitMsg}

\* Everything a line may hold, as far as handleMessage tells lines apart.
AllMessages == PipelinedMessages \cup
  { Message("configure", "valid", NoMask),
    Message("authorize", "invalid", NoMask),
    Message("submit", "valid", NoMask),
    Message("submit", "valid", {lo}),
    Message("submit", "malformed", NoMask),
    Message("other", "valid", NoMask),
    Message("garbage", "valid", NoMask) }

\* Four lines of a miner that pipelines its messages.
PipelinedLines == [line \in 1..4 |-> PipelinedMessages]

\* Four lines of every kind, and one more share.
AllLines == [line \in 1..5 |-> IF line < 5 THEN AllMessages ELSE {SubmitMsg}]
=============================================================================
