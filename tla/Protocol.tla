------------------------------ MODULE Protocol ------------------------------
(***************************************************************************)
(* The messages between the game server and its client, as the generated   *)
(* classes of Protocol.pb, Struct.pb and Enum.pb make, size, write and     *)
(* read them.  The server and the client are compiled with copies of the   *)
(* same classes: a message is written by the one and read by the other.    *)
(* A field that has its default value is not written.                      *)
(***************************************************************************)
EXTENDS Protobuf

Text == Seq(Byte)
Opt(condition, bytes) == IF condition THEN bytes ELSE <<>>
OptSize(condition, size) == IF condition THEN size ELSE 0
Total(sizes) == FoldLeft(LAMBDA a, b : a + b, 0, sizes)

\* enum PlayerType: proto3 keeps a number that it does not know.
PLAYER_TYPE_NONE == 0
PLAYER_TYPE_KNIGHT == 1
PLAYER_TYPE_MAGE == 2

-----------------------------------------------------------------------------
Player == [id : Nat, name : Text, playerType : Nat]
Player_New == [id |-> 0, name |-> <<>>, playerType |-> PLAYER_TYPE_NONE]
Player_set_name(m, v) == [m EXCEPT !.name = v]
Player_set_playertype(m, v) == [m EXCEPT !.playerType = v]

Player_Serialize(m) ==
    Opt(m.id # 0, VarintField(1, m.id))
    \o Opt(m.name # <<>>, BytesField(2, m.name))
    \o Opt(m.playerType # 0, VarintField(3, m.playerType))

Player_ByteSize(m) ==
    OptSize(m.name # <<>>, 1 + BytesSize(m.name))
    + OptSize(m.id # 0, 1 + VarintSize(m.id))
    + OptSize(m.playerType # 0, 1 + VarintSize(m.playerType))

Player_Parse(b) == ParseMessage(b, Player_New, LAMBDA m, f :
    CASE f.tag = 8 -> <<[m EXCEPT !.id = f.value]>>
      [] f.tag = 18 -> Opt(ValidText(f.value), <<[m EXCEPT !.name = f.value]>>)
      [] f.tag = 24 -> <<[m EXCEPT !.playerType = f.value]>>
      [] OTHER -> <<m>>)

-----------------------------------------------------------------------------
C_LOGIN == [none : {0}]
C_LOGIN_New == [none |-> 0]
C_LOGIN_Serialize(m) == <<>>
C_LOGIN_ByteSize(m) == 0
C_LOGIN_Parse(b) == ParseMessage(b, C_LOGIN_New, LAMBDA m, f : <<m>>)

S_LOGIN == [success : BOOLEAN, players : Seq(Player)]
S_LOGIN_New == [success |-> FALSE, players |-> <<>>]
S_LOGIN_set_success(m, v) == [m EXCEPT !.success = v]
S_LOGIN_add_players(m, p) == [m EXCEPT !.players = Append(@, p)]

S_LOGIN_Serialize(m) ==
    Opt(m.success, VarintField(1, 1))
    \o FlattenSeq([i \in 1..Len(m.players) |->
                    BytesField(2, Player_Serialize(m.players[i]))])

S_LOGIN_ByteSize(m) ==
    LET MessageSize(p) == VarintSize(Player_ByteSize(p)) + Player_ByteSize(p)
    IN Len(m.players) + Total([i \in 1..Len(m.players) |-> MessageSize(m.players[i])])
       + OptSize(m.success, 1 + 1)

S_LOGIN_Parse(b) == ParseMessage(b, S_LOGIN_New, LAMBDA m, f :
    CASE f.tag = 8 -> <<[m EXCEPT !.success = f.value # 0]>>
      [] f.tag = 18 -> LET p == Player_Parse(f.value) IN
                       Opt(p # <<>>, <<[m EXCEPT !.players = @ \o p]>>)
      [] OTHER -> <<m>>)

-----------------------------------------------------------------------------
C_ENTER_GAME == [playerIndex : Nat]
C_ENTER_GAME_New == [playerIndex |-> 0]
C_ENTER_GAME_set_playerindex(m, v) == [m EXCEPT !.playerIndex = v]
C_ENTER_GAME_Serialize(m) == Opt(m.playerIndex # 0, VarintField(1, m.playerIndex))
C_ENTER_GAME_ByteSize(m) == OptSize(m.playerIndex # 0, 1 + VarintSize(m.playerIndex))
C_ENTER_GAME_Parse(b) == ParseMessage(b, C_ENTER_GAME_New, LAMBDA m, f :
    <<IF f.tag = 8 THEN [m EXCEPT !.playerIndex = f.value] ELSE m>>)

S_ENTER_GAME == [success : BOOLEAN]
S_ENTER_GAME_New == [success |-> FALSE]
S_ENTER_GAME_set_success(m, v) == [m EXCEPT !.success = v]
S_ENTER_GAME_Serialize(m) == Opt(m.success, VarintField(1, 1))
S_ENTER_GAME_ByteSize(m) == OptSize(m.success, 1 + 1)
S_ENTER_GAME_Parse(b) == ParseMessage(b, S_ENTER_GAME_New, LAMBDA m, f :
    <<IF f.tag = 8 THEN [m EXCEPT !.success = f.value # 0] ELSE m>>)

-----------------------------------------------------------------------------
C_CHAT == [msg : Text]
C_CHAT_New == [msg |-> <<>>]
C_CHAT_set_msg(m, v) == [m EXCEPT !.msg = v]
C_CHAT_Serialize(m) == Opt(m.msg # <<>>, BytesField(1, m.msg))
C_CHAT_ByteSize(m) == OptSize(m.msg # <<>>, 1 + BytesSize(m.msg))
C_CHAT_Parse(b) == ParseMessage(b, C_CHAT_New, LAMBDA m, f :
    IF f.tag = 10 THEN Opt(ValidText(f.value), <<[m EXCEPT !.msg = f.value]>>)
    ELSE <<m>>)

S_CHAT == [playerId : Nat, msg : Text]
S_CHAT_New == [playerId |-> 0, msg |-> <<>>]
S_CHAT_set_msg(m, v) == [m EXCEPT !.msg = v]

S_CHAT_Serialize(m) ==
    Opt(m.playerId # 0, VarintField(1, m.playerId))
    \o Opt(m.msg # <<>>, BytesField(2, m.msg))

S_CHAT_ByteSize(m) ==
    OptSize(m.msg # <<>>, 1 + BytesSize(m.msg))
    + OptSize(m.playerId # 0, 1 + VarintSize(m.playerId))

S_CHAT_Parse(b) == ParseMessage(b, S_CHAT_New, LAMBDA m, f :
    CASE f.tag = 8 -> <<[m EXCEPT !.playerId = f.value]>>
      [] f.tag = 18 -> Opt(ValidText(f.value), <<[m EXCEPT !.msg = f.value]>>)
      [] OTHER -> <<m>>)
=============================================================================
