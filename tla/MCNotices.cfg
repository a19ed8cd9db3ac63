\* Two requests, seven tasks, two processes, one retry, one failure.
SPECIFICATION MCSpec
CONSTANTS
  Requests = {r1, r2}
  Nobody = Nobody
  AtCheckout <- ToCustomer
  Audience <- ToBoth
  Posts = {"confirmed", "delivered"}
  SmsBackend = "fast2sms"
  WhatsAppBackend = "msg91"
  WhatsAppEnabled = TRUE
  Processes = 2
  MaxRetries = 1
  MaxNotices = 7
  MaxLosses = 1
INVARIANTS TypeOK NoticesBounded ToldTruth
PROPERTIES Announced
CHECK_DEADLOCK FALSE
