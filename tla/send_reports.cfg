SPECIFICATION Spec
CONSTANTS
  a = a
  b = b
  t = t
  WhatsApp <- TwoWhatsApp
  Telegram <- OneTelegram
  Unwritable <- SecondJob
  HasFallback = TRUE
  Retries = 1
  MaxAttempts = 2
INVARIANT
  TypeOK
  SentWasTaken
  RepeatsOnlyUnheard
PROPERTY
  KeepsSenderContract
CHECK_DEADLOCK FALSE
