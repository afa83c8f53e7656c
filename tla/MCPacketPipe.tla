---------------------------- MODULE MCPacketPipe ----------------------------
EXTENDS PacketPipe

Login == S_LOGIN_add_players(S_LOGIN_add_players(S_LOGIN_set_success(S_LOGIN_New, TRUE),
            Player_set_playertype(Player_set_name(Player_New, <<68>>), PLAYER_TYPE_KNIGHT)),
            Player_set_playertype(Player_set_name(Player_New, <<66>>), PLAYER_TYPE_MAGE))

MCPlan ==
    [server |-> <<
        <<[id |-> 1000, msg |-> C_LOGIN_New],
          [id |-> 1002, msg |-> C_ENTER_GAME_set_playerindex(C_ENTER_GAME_New, 0)],
          [id |-> 1004, msg |-> C_CHAT_set_msg(C_CHAT_New, <<255>>)]>>,
        <<[id |-> 1002, msg |-> C_ENTER_GAME_set_playerindex(C_ENTER_GAME_New, 200)],
          [id |-> 1004, msg |-> C_CHAT_set_msg(C_CHAT_New, <<72, 105>>)]>> >>,
     client |-> <<
        <<[id |-> 1001, msg |-> Login],
          [id |-> 1005, msg |-> S_CHAT_set_msg(S_CHAT_New, <<72>>)]>>,
        <<[id |-> 1003, msg |-> S_ENTER_GAME_set_success(S_ENTER_GAME_New, TRUE)],
          [id |-> 1001, msg |-> Login]>> >>]
MCThreads == 1..2
=============================================================================
