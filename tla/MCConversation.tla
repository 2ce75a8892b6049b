---------------------------- MODULE MCConversation ----------------------------
(***************************************************************************)
(* A terminal, whose user gives commands and cancels what was asked for,   *)
(* and a chat of a Telegram bot.  The texts reach the ways of deciding, of *)
(* managing tasks and of following up on what was said.                    *)
(***************************************************************************)
EXTENDS Conversation, TLC

MCGateway == <<"telegram", "cli">>
MCChatsOf == ("telegram" :> {"chat"}) @@ ("cli" :> {"terminal"})

MCTraits ==
  ("fix nginx"     :> {"strong", "likely", "path"}) @@
  ("ok look in it" :> {"affirms", "where", "short"}) @@
  ("cancel this"   :> {"cancelThis"}) @@
  ("cancel all"    :> {"cancelAll"}) @@
  ("/new"          :> {"likely"}) @@
  ("/cancel"       :> {}) @@
  ("I can"         :> {"offer", "path"})

MCCommand ==
  [text \in DOMAIN MCTraits |->
     CASE text = "/new" -> "new" [] text = "/cancel" -> "cancel"
       [] OTHER -> "none"]
MCReport == {"I can"}
MCTextOf ==
  ("telegram" :> (DOMAIN MCTraits \ (MCReport \cup {"cancel this", "/new", "/cancel"})))
  @@ ("cli" :> {"cancel this", "/new", "/cancel"})
=============================================================================
