--------------------------- MODULE MCWhatsappSender ---------------------------
(* TLC instances of WhatsappSender: a few requests in one conversation. *)
EXTENDS WhatsappSender, TLC

CONSTANTS p1, a1, s1, s2, i1, i2, t1

\* The bot replies through the workflow, a human through the inbox, and the workflow
\* records a human's text.
InConversation == {<<"workflow", "bot", TRUE>>, <<"agent", "human_agent", TRUE>>,
                   <<"save", "human_agent", TRUE>>}

\* The automatic replies, and one sent by phone number alone.
ByTheBot == {<<"workflow", "bot", TRUE>>, <<"automated_reply", "bot", TRUE>>,
             <<"automated_reply", "bot", FALSE>>}

\* The requests, and the messages of the customer, are interchangeable; no run that
\* uses this symmetry checks liveness.
Symmetry == Permutations(Sends) \cup Permutations(Inbound)
=============================================================================
