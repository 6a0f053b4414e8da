---------------------------- MODULE MCTerminalPage ----------------------------
(* Instances of TerminalPage: each budget lets some parts of it meet. *)
EXTENDS TerminalPage, TLC

CONSTANTS f1, f2

Nothing == [p \in Parts |-> 0]

Plainly == [cell |-> 1, agentMode |-> FALSE, mouseInput |-> FALSE,
            longPressRightClick |-> FALSE, tapToMovePromptCursor |-> FALSE]
Agent == [Plainly EXCEPT !.agentMode = TRUE, !.cell = 2]
\* Its large cells leave fewer than Wide columns in the narrow Widths.
Pointing == [Plainly EXCEPT !.mouseInput = TRUE, !.longPressRightClick = TRUE,
                            !.tapToMovePromptCursor = TRUE, !.cell = 2]
Some == {Plainly, Agent, Pointing}

Few ==
    { "options" :> 1 @@ "shell" :> 9 @@ Nothing,
      "layout" :> 2 @@ "options" :> 1 @@ "life" :> 1 @@ Nothing,
      "layout" :> 1 @@ "shell" :> 6 @@ Nothing,
      "shell" :> 2 @@ "touch" :> 2 @@ "keys" :> 1 @@ Nothing,
      "options" :> 1 @@ "touch" :> 2 @@ Nothing,
      "life" :> 1 @@ "keys" :> 4 @@ Nothing,
      "shell" :> 2 @@ "keys" :> 2 @@ Nothing }
=============================================================================
