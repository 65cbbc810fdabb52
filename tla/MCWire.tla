------------------------------- MODULE MCWire -------------------------------
(* A message of each type and a value of each kind, with bytes where they do
   harm: an identifier that reads otherwise backwards, and strings that hold
   an end mark and the code of an update.  One reply does not fit its buffer. *)
EXTENDS Wire

mark == <<13, 10>>
code == <<7, 6>>
id == <<2, 1, 0, 0>>

Requests ==
  {Message("BEGIN_SESSION", <<code, <<0, 1>>>>),
   Message("END_SESSION", <<mark>>),
   Message("SUBSCRIPTION_REQ", <<mark, code>>),
   Message("SUBSCRIPTION_REQ", <<<<>>, mark>>),
   Message("UNSUBSCRIPTION_REQ", <<id>>),
   VarUpdate(id, "BOOLEAN", <<1>>),
   VarUpdate(id, "BYTE", <<13>>),
   VarUpdate(id, "WORD", <<10, 13>>)}

Replies ==
  {Message("BEGIN_SESSION", <<mark, <<0, 1>>>>),
   Message("SUBSCRIPTION_REP", <<<<0>>, mark, code, id, <<>>>>),
   Message("SUBSCRIPTION_REP", <<<<2>>, code, <<>>, <<0, 0, 0, 0>>, mark>>),
   Message("SUBSCRIPTION_REP", <<<<0>>, mark, code, id, code>>),
   Message("UNSUBSCRIPTION_REP", <<<<3>>, id, code>>),
   VarUpdate(id, "DWORD", <<10, 13, 6, 7>>),
   VarUpdate(id, "FLOAT", <<4, 3, 2, 1, 255, 255, 255, 255>>)}

\* The server's holds two messages and more; the client's may fill up.
MCIn == [server |-> 64, client |-> 30]
=============================================================================
