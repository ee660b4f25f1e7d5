-------------------------- MODULE DownstreamCookies --------------------------
(***************************************************************************)
(* What the cookies of Downstream have to be for a client to return them.  *)
(* Nothing in setCookie or toString escapes or refuses a byte, so this too *)
(* is the duty of the application.                                         *)
(***************************************************************************)
EXTENDS DownstreamInv

\* A name is of the bytes that fromString takes for one, and no text has a
\* semicolon in it; a date has none.
Names == Seq({s \in Symbols : is_name(s)})
Plain == Symbols \ {Semicolon}
PlainText == Seq(Plain)
Returnable(c) ==
  /\ c.name \in Names
  /\ c.value \in PlainText /\ c.path \in PlainText /\ c.domain \in PlainText
  /\ c.expires # Semicolon

ASSUME ReturnableAssumption ==
  \A cookies \in CookieLists : \A i \in DOMAIN cookies : Returnable(cookies[i])
=============================================================================
