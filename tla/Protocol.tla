------------------------------ MODULE Protocol ------------------------------
(***************************************************************************)
(* The message types and answers of Protocol/Protocol.h and the packing of *)
(* Protocol/Protocol.c.  A number in a message is the 32-bit value a       *)
(* little-endian host reads at m_answer, so that packing reverses bytes.   *)
(***************************************************************************)
EXTENDS Naturals

Byte(n, i) == (n \div 256^i) % 256

\* htonl and ntohl of the little-endian build.
Swap32(n) == Byte(n, 0) * 256^3 + Byte(n, 1) * 256^2 + Byte(n, 2) * 256 + Byte(n, 3)

REGISTER_SUCCESS                   == 0
REGISTER_USER_NAME_ALLREADY_EXIST  == 1
LOGIN_USER_SUCCESSFULLY_CONNECTED  == 2
LOGIN_USER_NAME_NOT_EXIST          == 3
LOGIN_WRONG_PSW                    == 4
LOGIN_ALLREADY_CONNECTED           == 5
GROUP_SUCCESSFULLY_INSERT          == 6
GROUP_NAME_ALREADY_EXIST           == 7
GROUP_NAME_NOT_EXIST               == 8
GROUP_SUCCESSFULLY_JOIN            == 9
GROUP_SUCCESSFULLY_FOUND           == 10

Answers == 0 .. 10

UserReqs  == {"REGISTER_REQ", "LOGIN_REQ"}
GroupReqs == {"CREATE_GROUP_CONVERSATION_REQ", "JOIN_CONVERSATION_REQ",
              "LEAVE_CONVERSATION_REQ"}

AnswerTypes == {"REGISTER_ANS", "LOGIN_ANS", "CREATE_GROUP_CONVERSATION_ANS",
                "JOIN_CONVERSATION_ANS", "LEAVE_CONVERSATION_ANS"}

\* Defect: the answer to a creation is not packed either.
DefectCreateNotPacked(ans) ==
  IF ans.m_type \in {"LEAVE_CONVERSATION_ANS", "CREATE_GROUP_CONVERSATION_ANS"} THEN ans
  ELSE [ans EXCEPT !.m_answer = Swap32(@)]

\* The answer's case of a switch on the type.  LEAVE_CONVERSATION_ANS is
\* commented out of Pack and present in UnPack.
PackAnswer(ans) ==
  IF ans.m_type = "LEAVE_CONVERSATION_ANS" THEN ans
  ELSE [ans EXCEPT !.m_answer = Swap32(@)]

UnPackAnswer(ans) == [ans EXCEPT !.m_answer = Swap32(@)]
=============================================================================
