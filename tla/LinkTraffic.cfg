\* Uploads, requests and keep-alives under any segmentation; either side may go away.
CONSTANTS
  KeepAliveDelay = 2
  RequestDelay = 1
  ReceiveDelay = 4
  UploadType = {1}
  UploadLength = 224
  MaxUpload = 2
  MaxRequest = 1
  MaxBytes = 5
SPECIFICATION FairSpec
INVARIANTS TypeOK NoPhantomEvents NoSpuriousTimeout
PROPERTIES ServerForgets ClientNotices
