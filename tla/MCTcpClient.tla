---------------------------- MODULE MCTcpClient ----------------------------
EXTENDS TcpClient

\* Well-formed messages, one with a line feed in its text, one with a lone CR,
\* one with a line feed where none is taken, one only clients send, and an empty
\* line.
MCBodies  == {<<"MSG">>, <<"REPLY", "LF">>, <<"BYE">>, <<"BYE", "LF">>, <<"MSG", "CR">>, <<"JOIN">>, <<>>}
MCReplies == {<<"REPLY">>, <<"MSG">>}
=============================================================================
