SPECIFICATION Spec
CONSTANTS
  anna = anna
  alex = alex
  date = date
  None = None
  Texts <- SomeTexts
  Shapes <- SomeShapes
  Sizes <- Limits
  Names = {anna, alex}
  Slots = {date}
  Langs = {"de", "en"}
CHECK_DEADLOCK FALSE
INVARIANTS DeliveredIsSound BilledForDelivery
