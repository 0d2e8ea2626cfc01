------------------------------- MODULE MCJobs -------------------------------
(* Three children, which is one more than a pending signal and a running      *)
(* handler account for.  The program also calls the conversions of Hex and    *)
(* the helpers of Strings.                                                    *)
EXTENDS Jobs, Hex, Strings

(* As long as the program is defined: a text of an even number of digits, `F'
   not among them, is read as the bytes it stands for, last byte first, never
   past the buffer and never from outside the text; bytes printed with room
   for two characters each read back as themselves; bytes compare as equal or
   not, and copies are cut to the buffer (common.c:327-542 against
   common.h:204-282).  A number that itoc writes is read back by atonum, if a
   space leads it; joined texts fill the room that was asked for; a text is
   found where it is (common.c:30-82, 132-165, 299-324). *)
ConversionsAgree ==
  main # "undefined" =>
    /\ MisreadTexts = {} /\ MisprintedBuffers = {} /\ Miscompared = {} /\ Miscopied = {}
    /\ MisreadNumbers = {} /\ MisreadBases = {} /\ Misjoined = {} /\ Misfound = {}
=============================================================================
