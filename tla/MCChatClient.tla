---------------------------- MODULE MCChatClient ----------------------------
(***************************************************************************)
(* Small instances of ChatClient for TLC, with a server that speaks the    *)
(* client's words, and with the one of this repository.                    *)
(***************************************************************************)
EXTENDS ChatClient, TLC

CONSTANTS alice, bob

(* "登录成功", "登录失败", "注册失败", "已退出": the words of client.c. *)
ClientsWords ==
    [a \in Answer |->
        CASE a = "granted" -> "welcome"
          [] a \in {"refused", "notRegistered"} -> "failed"
          [] a = "registered" -> "nothing"
          [] a = "loggedOut" -> "bye"]

(* "Login success", "Register failed" and so on, which client.c does not look
   for; a "logout" is not answered (message_handler.c:4-79). *)
ThisServersWords ==
    [a \in Answer |-> IF a = "loggedOut" THEN "noAnswer" ELSE "nothing"]
=============================================================================
