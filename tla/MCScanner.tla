----------------------------- MODULE MCScanner ------------------------------
(* Every text over some of the characters, up to a length that lets each     *)
(* form be opened, broken, closed and followed by something.                 *)
EXTENDS Scanner

UpTo(chars, n) == UNION {[1 .. k -> chars] : k \in 0 .. n}

MCTexts ==
  UNION {
    UpTo({" ", "nl", "cr", "/", "*", "a"}, 5),
    UpTo({"=", "-", "a", " "}, 6),
    UpTo({"!", "=", "<", "\\"}, 5),
    UpTo({"=", "\\", "'"}, 6),
    UpTo({"\"", "nl", "cr", "\\"}, 6),
    UpTo({"'", "nl", "\\", "a"}, 5),
    UpTo({"\"", "nl", "a"}, 8),
    UpTo({"'", "nl"}, 8),
    UpTo({"#", "!", "a", " ", "nl", "/"}, 4),
    UpTo({"1", ".", "'", "a", "-"}, 5),
    UpTo({"bad", "(", "a", "nl"}, 3)}
=============================================================================
