----------------------------- MODULE MCFraming -----------------------------
(* Bodies and junk for Framing, with numbers to the base two. *)
EXTENDS Framing

MCBytes ==
  Blanks \cup {"Content", "-Length", ":", "\r\n", Nul, "{", "}"} \cup {Digits[d] : d \in 1..10}

\* A short object, and one that holds the text of a whole header.
MCBodies == {<<"{", "}">>, <<"{", "Content", "-Length", ":", "1", "\r\n", "\r\n">>}

\* A body without a header; no length; an end of line missing; another field;
\* length zero; a length that size_t does not hold.  (A length that wraps around
\* to a small one is not among them: the reader takes what follows for a body.)
MCJunk ==
  {<<"{", "}">>,
   HeaderName \o <<"NUL", "}">>,
   HeaderName \o <<"1", "\r\n", "}">>,
   <<"{", "\r\n">> \o HeaderName \o <<"1">> \o Ends,
   HeaderName \o <<"\t", "0">> \o Ends,
   HeaderName \o <<"1", "0", "0", "0">> \o Ends}
=============================================================================
