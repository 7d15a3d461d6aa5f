----------------------------- MODULE MCWebMail -----------------------------
(* WebMail for TLC: two mailboxes; a has two mails in the inbox, one in the  *)
(* trash, two sent and one to come; pages of one mail, windows of two.       *)
EXTENDS MailInvariant

CONSTANTS a, b

MCBoxes    == {a, b}
MCMails    == 1 .. 7
MCHome     == [m \in MCMails |-> IF m = 4 THEN b ELSE a]
MCContents == [m \in MCMails |-> CASE m \in {1, 2, 4} -> "inbox"
                                 [] m = 3 -> "trash"
                                 [] m \in {5, 6} -> "sent"
                                 [] OTHER -> "unborn"]

View(tab, email, msg) == [tab |-> tab, email |-> email, msg |-> msg]

MCViews == {View("inbox", None, None), View("inbox", a, 2), View("imap", a, None),
            View("sent", a, 6), View("trash", a, 3)}
=============================================================================
