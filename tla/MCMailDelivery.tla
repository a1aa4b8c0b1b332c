--------------------------- MODULE MCMailDelivery ---------------------------
(* MailDelivery with two jobs and two recipients.                             *)
EXTENDS MailDelivery

CONSTANTS a, b, x, y

MCJobs == {a, b}
MCRecipients == {x, y}
=============================================================================
