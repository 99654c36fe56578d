-------------------------- MODULE MCHTTPConnection --------------------------
(* A small instance of HTTPConnection for TLC.                              *)
EXTENDS HTTPConnection, TLC

End == <<"CR", "LF">>

Plain     == <<"REQ">> \o End \o End
KeepPlain == <<"REQ">> \o End \o <<"KEEP">> \o End \o End
Post      == <<"REQ">> \o End \o <<"CL2">> \o End \o End \o <<"B", "B">>
KeepPost  == <<"REQ">> \o End \o <<"KEEP">> \o End \o <<"CL1">> \o End \o End \o <<"B">>

MCScripts == {
  <<KeepPost, Post>>,
  <<KeepPlain, Plain>>,
  <<Post>>,
  << <<"REQ">> \o End \o <<"CL2">> \o End \o <<"CL1">> \o End \o End \o <<"B">> >>,
  (* no request line; a continuation of nothing, and of a header; text     *)
  (* without a colon; a CR without its LF                                  *)
  <<End>>,
  << <<"REQ">> \o End \o <<"BLANK", "HDR">> \o End \o End>>,
  << <<"REQ">> \o End \o <<"HDR">> \o End \o <<"BLANK", "JUNK">> \o End \o End>>,
  << <<"REQ">> \o End \o <<"JUNK">> \o End \o End>>,
  << <<"REQ", "CR", "JUNK">> >> }

=============================================================================
