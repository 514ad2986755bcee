------------------------------ MODULE MCProgram ------------------------------
EXTENDS Program

Word(class, len) == [class |-> class, len |-> len]
Command(cmd, args) == [cmd |-> cmd, args |-> args, text |-> Empty]
Message(class, len) == [cmd |-> "none", args |-> <<>>, text |-> Word(class, len)]

MCLines ==
    { Command("/auth", <<Word("alnum", 20), Word("alnum", 128), Word("printable", 20)>>),
      Command("/auth", <<Word("alnum", 20), Word("alnum", 128), Word("other", 20)>>),
      Command("/join", <<Word("alnum", 20)>>),
      Command("/rename", <<Word("printable", 20)>>),
      Message("text", 60001),
      BlankLine }

Option(opt, text, value) == [opt |-> opt, arg |-> [text |-> text, value |-> value]]

MCOptions ==
    { Option("t", "tcp", -1), Option("t", "udp", -1), Option("t", "other", -1),
      Option("s", "other", -1), Option("s", "dash", -1),
      Option("p", "other", 65536),
      Option("d", "other", 65535), Option("d", "other", 65536),
      Option("d", "other", -1),
      Option("r", "other", 256),
      Option("h", "other", -1), Option(":", "other", -1) }
=============================================================================
