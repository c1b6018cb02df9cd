-------------------------- MODULE MCAlertDelivery --------------------------
(* Two workers and a workspace with two channels, or with a webhook. *)
EXTENDS AlertDelivery

CONSTANTS w1, w2, email, slack, webhook, opened, other

TwoWorkers     == {w1, w2}
AllChannels    == {email, slack, webhook}
MCWorkspaces   == {{email, slack}, {webhook}}
MaybeMalformed == {{}, {other}}
=============================================================================
