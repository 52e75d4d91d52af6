------------------------------ MODULE MCRecord ------------------------------
(* Record.tla for TLC. The lengths are small, in the proportions of the code:  *)
(* four fifths of the block and one record leave just the terminator's room.   *)
EXTENDS Record

Text(n) == [i \in 1..n |-> "b"]

\* No header, one that just fits its snprintf, one byte more, the last that leaves room
\* for ErrorText and a newline, one that leaves it just for ErrorText, and one that is
\* longer than the array.
HeaderLengths == {0, 7, 8, 20, 21, 30}

\* NULL; nothing; short; cut so that its last byte is a newline; cut elsewhere.
LoggedBodies == {NoBody, << >>, Text(2), Text(21) \o <<NL, "b">>, Text(30)}

FillingCalls == {[header |-> 0, body |-> Text(30)]}

ErrorBytes   == <<"e", "e", "e">>
Letters      == {"b", "e", "m", NL}
MessageBytes == [i \in 1..21 |-> "m"] \o <<NL>>
=============================================================================
