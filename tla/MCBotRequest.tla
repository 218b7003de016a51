---------------------------- MODULE MCBotRequest ----------------------------
EXTENDS BotRequest
=============================================================================
