---------------------------- MODULE MCAgentTurns ----------------------------
(* A small instance of the agent's turns for TLC: a few messages that differ *)
(* in what the rules find in them.                                           *)
EXTENDS AgentTurns

CONSTANTS t1, t2, b1

Says(names, is) == [names |-> names, words |-> {}, idiom |-> {}, is |-> is]

MCMessages ==
    { Says({"calendar"}, {"write"}),          \* move the meeting to Friday
      Says({"teams"}, {"write"}),             \* post it in the Teams channel
      Says({}, {"revision", "detail", "reference"}),  \* actually, try it again
      Says({"mail"}, {"stock"}),              \* how many unread messages
      Says({}, {"rule", "durable"}),          \* I prefer short replies
      Says({}, {"Yes"}) }

MCReplies == { {f} : f \in Features } \cup { {}, {"asksYes", "asksDetail"} }

\* Nothing yet, or a request that the assistant asked a detail about.
MCEarlier ==
    LET request == Says({"calendar"}, {"write"}) IN
    { <<>>,
      << UserRow(request),
         [by |-> "assistant", says |-> Says({"calendar"}, {}), asks |-> TRUE,
          steps |-> {}, card |-> 0] >> }

MCBudgets == [c \in Categorised |-> IF c = "briefing" THEN 1 ELSE None]
=============================================================================
