------------------------------ MODULE MCWebhook ------------------------------
EXTENDS Webhook
==============================================================================
